---- MODULE Spec2Model ----
(***************************************************************************)
(* The streaming-generation consumer (StreamingGenerator.tsx) and the      *)
(* review checklist of the submission detail page (submissions/[id]/page). *)
(* Text is modelled as TLA+ strings, one character per string position.    *)
(***************************************************************************)
EXTENDS Integers, Sequences, FiniteSets, TLC

(***************************************************************************)
(* Bounds of the model.                                                    *)
(***************************************************************************)
\* how many activations of startGeneration can be under way at a time
MaxRuns == 2

\* how many items a review's checklist has
NumItems == 3

\* how many calls of handleChecklistUpdate can be under way at a time
MaxCalls == 2

\* how many calls of handleChecklistUpdate a behaviour has
MaxUpdates == 2

\* the reviews a submission has at most
MaxReviews == 3

\* the activations of handleCreateReview under way at a time
MaxCreates == 2

\* the approve and reject requests under way at a time
MaxDecisions == 1

\* the requests for generation of one submission
MaxRequests == 2

(***************************************************************************)
(* JavaScript values.                                                      *)
(***************************************************************************)
\* an absent number: an optional field left out (undefined) or a null state
Undefined == -1

\* an absent string field of an event (message, text)
NoString == "<undefined>"

(***************************************************************************)
(* String primitives of the JavaScript runtime, 1-based.                   *)
(***************************************************************************)
CharAt(s, i) == SubSeq(s, i, i)

\* String.prototype.slice(from) with `from` counted from 1
SliceFrom(s, from) == SubSeq(s, from, Len(s))

\* String.prototype.startsWith
StartsWith(s, prefix) ==
  /\ Len(prefix) <= Len(s)
  /\ SubSeq(s, 1, Len(prefix)) = prefix

\* String.prototype.endsWith
EndsWith(s, suffix) ==
  /\ Len(suffix) <= Len(s)
  /\ SubSeq(s, Len(s) - Len(suffix) + 1, Len(s)) = suffix

\* the least element of a non-empty set of numbers
Least(S) == CHOOSE i \in S : \A j \in S : i <= j

\* the positions where d occurs in s
Occurrences(s, d) ==
  {i \in 1..(Len(s) - Len(d) + 1) : SubSeq(s, i, i + Len(d) - 1) = d}

RECURSIVE SplitFrom(_, _, _, _)
\* the piece of s between position `from` and the occurrence of d at
\* position i, and the pieces after that occurrence
SplitAt(s, d, occurrences, from, i) ==
  <<SubSeq(s, from, i - 1)>> \o SplitFrom(s, d, occurrences, i + Len(d))

\* the pieces of s from position `from` on, cut at those of the given
\* occurrences of d that lie at or after `from`, taken left to right
SplitLater(s, d, occurrences, from) ==
  IF occurrences = {} THEN <<SliceFrom(s, from)>>
  ELSE SplitAt(s, d, occurrences, from, Least(occurrences))

\* an occurrence that overlaps the one before it is not a cut
SplitFrom(s, d, occurrences, from) ==
  SplitLater(s, d, {i \in occurrences : i >= from}, from)

\* String.prototype.split(d) for a non-empty separator; the result is never
\* empty
Split(s, d) == SplitFrom(s, d, Occurrences(s, d), 1)

WhiteSpace == {" ", "\t", "\n", "\r"}

RECURSIVE TrimStart(_)
TrimStart(s) ==
  IF Len(s) > 0 /\ CharAt(s, 1) \in WhiteSpace THEN TrimStart(SliceFrom(s, 2))
  ELSE s

RECURSIVE TrimEnd(_)
TrimEnd(s) ==
  IF Len(s) > 0 /\ CharAt(s, Len(s)) \in WhiteSpace
  THEN TrimEnd(SubSeq(s, 1, Len(s) - 1))
  ELSE s

\* String.prototype.trim
Trim(s) == TrimEnd(TrimStart(s))

(***************************************************************************)
(* TextDecoder.  The wire carries UTF-8.  Every character of the model is  *)
(* one byte on the wire except one two-byte character, written on the wire *)
(* as Utf8Lead followed by Utf8Trail and decoded to TwoByteChar.  A lead   *)
(* byte not followed by its trail byte, and a trail byte on its own,       *)
(* decode to the replacement character.                                    *)
(***************************************************************************)
Utf8Lead == "^"

Utf8Trail == "~"

TwoByteChar == "E"

ReplacementChar == "?"

RECURSIVE DecodeBytes(_)
\* the decoding of bytes whose first lead or trail byte is at position i
DecodeAt(bytes, i) ==
  IF SubSeq(bytes, i, i + 1) = Utf8Lead \o Utf8Trail
  THEN SubSeq(bytes, 1, i - 1) \o TwoByteChar \o DecodeBytes(SliceFrom(bytes, i + 2))
  ELSE SubSeq(bytes, 1, i - 1) \o ReplacementChar \o DecodeBytes(SliceFrom(bytes, i + 1))

\* the decoding of bytes with lead or trail bytes at the given positions
DecodeSpecial(bytes, special) ==
  IF special = {} THEN bytes ELSE DecodeAt(bytes, Least(special))

\* the decoding of a byte string that does not end inside a character:
\* the one-byte characters up to the first lead or trail byte are themselves
DecodeBytes(bytes) ==
  DecodeSpecial(bytes,
     {i \in 1..Len(bytes) : CharAt(bytes, i) \in {Utf8Lead, Utf8Trail}})

\* the decoding of the input a call of decode has at hand
DecodeInput(input) ==
  IF EndsWith(input, Utf8Lead)
  THEN [text    |-> DecodeBytes(SubSeq(input, 1, Len(input) - 1)),
        pending |-> Utf8Lead]
  ELSE [text |-> DecodeBytes(input), pending |-> ""]

\* decoder.decode(value, { stream: true }): the bytes of a character cut by
\* the end of `value` are held back in the decoder until the next call
DecodeStream(pending, value) == DecodeInput(pending \o value)

(***************************************************************************)
(* Events of the stream (interface SSEEvent) and their JSON texts.         *)
(***************************************************************************)
\* an SSEEvent; an optional field that is left out holds Undefined
\* (numbers), NoString (strings) or "undefined" (the boolean)
Ev(type, message, percent, text, score, compliant) ==
  [type |-> type, message |-> message, percent |-> percent, text |-> text,
   compliance_score |-> score, compliant |-> compliant]

\* what JSON.parse returns for the text "null"
JsonNull == Ev("<null>", NoString, Undefined, NoString, Undefined, "undefined")

\* stands for JSON.parse throwing a SyntaxError
SyntaxError == Ev("<SyntaxError>", NoString, Undefined, NoString, Undefined, "undefined")

JStarted == "{\"type\":\"started\",\"message\":\"Loading\"}"

JStartedBare == "{\"type\":\"started\"}"

JProgress25 == "{\"type\":\"progress\",\"percent\":25,\"message\":\"Retrieve\"}"

JProgress10 == "{\"type\":\"progress\",\"percent\":10}"

JChunkSec == "{\"type\":\"chunk\",\"text\":\"Sec\"}"

JChunkTion1 == "{\"type\":\"chunk\",\"text\":\"tion 1\"}"

JChunkDots == "{\"type\":\"chunk\",\"text\":\"...\"}"

JChunkEmpty == "{\"type\":\"chunk\",\"text\":\"\"}"

\* a chunk whose text is the two-byte character, as decoded
JChunkTwoByte == "{\"type\":\"chunk\",\"text\":\"E\"}"

JCompleted92 ==
  "{\"type\":\"completed\",\"percent\":100,\"compliance_score\":92,\"compliant\":true,\"message\":\"Done\"}"

JCompleted60 ==
  "{\"type\":\"completed\",\"percent\":100,\"compliance_score\":60,\"compliant\":false}"

JCompletedBare == "{\"type\":\"completed\"}"

JError == "{\"type\":\"error\",\"message\":\"Provider failed\"}"

JErrorBare == "{\"type\":\"error\"}"

JPing == "{\"type\":\"ping\"}"

JNull == "null"

\* a text that is not JSON
JMalformed == "{\"type\":"

\* the progress event of the orchestrator at percent p
JPhase(p) ==
  "{\"type\":\"progress\",\"percent\":" \o ToString(p) \o ",\"message\":\"Phase\"}"

\* the percents of the orchestrator's progress events: the floors of Load,
\* Predicate, Documents, Retrieve and Prompt, two steps of the ramp of
\* Generate, and the floors of Score and Persist
PhasePercents == <<2, 8, 15, 25, 30, 60, 90, 95, 100>>

\* the percent of the progress event of the orchestrator with the text raw
PhasePercent(raw) ==
  PhasePercents[CHOOSE n \in DOMAIN PhasePercents : raw = JPhase(PhasePercents[n])]

\* the JSON texts of the orchestrator's progress events
PhaseTexts == {JPhase(PhasePercents[n]) : n \in DOMAIN PhasePercents}

\* JSON.parse on the texts the model's streams carry; any other text is
\* not JSON
JsonParse(raw) ==
  CASE raw = JStarted       -> Ev("started", "Loading", Undefined, NoString, Undefined, "undefined")
    [] raw = JStartedBare   -> Ev("started", NoString, Undefined, NoString, Undefined, "undefined")
    [] raw = JProgress25    -> Ev("progress", "Retrieve", 25, NoString, Undefined, "undefined")
    [] raw = JProgress10    -> Ev("progress", NoString, 10, NoString, Undefined, "undefined")
    [] raw = JChunkSec      -> Ev("chunk", NoString, Undefined, "Sec", Undefined, "undefined")
    [] raw = JChunkTion1    -> Ev("chunk", NoString, Undefined, "tion 1", Undefined, "undefined")
    [] raw = JChunkDots     -> Ev("chunk", NoString, Undefined, "...", Undefined, "undefined")
    [] raw = JChunkEmpty    -> Ev("chunk", NoString, Undefined, "", Undefined, "undefined")
    [] raw = JChunkTwoByte  -> Ev("chunk", NoString, Undefined, TwoByteChar, Undefined, "undefined")
    [] raw = JCompleted92   -> Ev("completed", "Done", 100, NoString, 92, "true")
    [] raw = JCompleted60   -> Ev("completed", NoString, 100, NoString, 60, "false")
    [] raw = JCompletedBare -> Ev("completed", NoString, Undefined, NoString, Undefined, "undefined")
    [] raw = JError         -> Ev("error", "Provider failed", Undefined, NoString, Undefined, "undefined")
    [] raw = JErrorBare     -> Ev("error", NoString, Undefined, NoString, Undefined, "undefined")
    [] raw = JPing          -> Ev("ping", NoString, Undefined, NoString, Undefined, "undefined")
    [] raw = JNull          -> JsonNull
    [] raw \in PhaseTexts   ->
         Ev("progress", "Phase", PhasePercent(raw), NoString, Undefined, "undefined")
    [] OTHER                -> SyntaxError

\* the JSON texts JsonParse knows
JsonTexts ==
  {JStarted, JStartedBare, JProgress25, JProgress10, JChunkSec, JChunkTion1,
   JChunkDots, JChunkEmpty, JChunkTwoByte, JCompleted92, JCompleted60,
   JCompletedBare, JError, JErrorBare, JPing} \cup PhaseTexts

\* the events a stream of the model can carry
Events == {JsonParse(t) : t \in JsonTexts}

(***************************************************************************)
(* State of the StreamingGenerator component.                              *)
(***************************************************************************)
VARIABLES
  phase,            \* GenerationPhase
  percent,
  statusMessage,
  streamedText,
  complianceScore,  \* a number, or Undefined for null
  isCompliant,      \* "true", "false", or "null"
  errorMessage,
  abortRef,         \* the run whose AbortController abortRef.current holds, 0 for null
  runs,             \* the activations of startGeneration
  textRuns          \* history: the runs whose chunks are part of streamedText

genVars ==
  <<phase, percent, statusMessage, streamedText, complianceScore, isCompliant,
    errorMessage, abortRef, runs, textRuns>>

\* the component's React state as one record, with the number of times the
\* activation at hand has invoked props.onComplete
UI(calls) ==
  [phase |-> phase, percent |-> percent, statusMessage |-> statusMessage,
   streamedText |-> streamedText, complianceScore |-> complianceScore,
   isCompliant |-> isCompliant, errorMessage |-> errorMessage,
   onCompleteCalls |-> calls]

\* the useState initial values
InitialUI ==
  [phase |-> "idle", percent |-> 0, statusMessage |-> "", streamedText |-> "",
   complianceScore |-> Undefined, isCompliant |-> "null", errorMessage |-> "",
   onCompleteCalls |-> 0]

\* the state updates made by one task take effect together
SetUI(ui) ==
  /\ phase' = ui.phase
  /\ percent' = ui.percent
  /\ statusMessage' = ui.statusMessage
  /\ streamedText' = ui.streamedText
  /\ complianceScore' = ui.complianceScore
  /\ isCompliant' = ui.isCompliant
  /\ errorMessage' = ui.errorMessage

\* event.message ?? fallback
OrElse(message, fallback) == IF message = NoString THEN fallback ELSE message

\* a string used as a condition: undefined and the empty string are falsy
Truthy(str) == str # NoString /\ str # ""

\* a completed case that leaves the phase alone
HandleCompleted_KeepsPhase(ui, event) ==
  [ui EXCEPT
     !.percent = 100,
     !.statusMessage = OrElse(event.message, "Generation complete!"),
     !.complianceScore =
        IF event.compliance_score # Undefined THEN event.compliance_score ELSE @,
     !.isCompliant = IF event.compliant # "undefined" THEN event.compliant ELSE @,
     !.onCompleteCalls = @ + 1]

\* case 'completed'
HandleCompleted(ui, event) ==
  [ui EXCEPT
     !.percent = 100,
     !.phase = "completed",
     !.statusMessage = OrElse(event.message, "Generation complete!"),
     !.complianceScore =
        IF event.compliance_score # Undefined THEN event.compliance_score ELSE @,
     !.isCompliant = IF event.compliant # "undefined" THEN event.compliant ELSE @,
     !.onCompleteCalls = @ + 1]

\* case 'chunk'
HandleChunk(ui, event) ==
  IF Truthy(event.text)
  THEN [ui EXCEPT !.streamedText = @ \o event.text]
  ELSE ui

\* a started case that sets the percent of a later phase
HandleStarted_Percent25(ui, event) ==
  [ui EXCEPT !.statusMessage = OrElse(event.message, "Starting..."),
             !.percent = 25]

\* case 'started'
HandleStarted(ui, event) ==
  [ui EXCEPT !.statusMessage = OrElse(event.message, "Starting..."),
             !.percent = 2]

\* handleEvent: the state of the component after one event
HandleEvent(ui, event) ==
  CASE event.type = "started" -> HandleStarted(ui, event)
    [] event.type = "progress" ->
         [ui EXCEPT
            !.percent = IF event.percent # Undefined THEN event.percent ELSE @,
            !.statusMessage = IF Truthy(event.message) THEN event.message ELSE @]
    [] event.type = "chunk" -> HandleChunk(ui, event)
    [] event.type = "completed" -> HandleCompleted(ui, event)
    [] event.type = "error" ->
         [ui EXCEPT
            !.phase = "error",
            !.errorMessage = OrElse(event.message, "An unknown error occurred.")]
    [] OTHER -> ui

(***************************************************************************)
(* The body of the read loop of startGeneration.                           *)
(***************************************************************************)
DataPrefix == "data: "

FrameDelimiter == "\n\n"

\* an Error object
Err(name, message) == [name |-> name, message |-> message]

\* what handleEvent(null) throws at event.type
NullTypeError == Err("TypeError", "Cannot read properties of null (reading 'type')")

\* a loop that a SyntaxError of JSON.parse leaves
Dispatch_Fatal(acc, event) ==
  IF event = SyntaxError \/ event = JsonNull
  THEN [acc EXCEPT !.threw = TRUE]
  ELSE [acc EXCEPT !.ui = HandleEvent(acc.ui, event), !.events = Append(@, event)]

\* handleEvent(event) for a parsed event, where handleEvent(null) throws
Dispatch(acc, event) ==
  IF event = SyntaxError THEN acc
  ELSE IF event = JsonNull
  THEN [acc EXCEPT !.threw = TRUE, !.events = Append(@, event)]
  ELSE [acc EXCEPT !.ui = HandleEvent(acc.ui, event), !.events = Append(@, event)]

\* if (!raw) continue; then JSON.parse, a SyntaxError skipping the line
ProcessRaw(acc, raw) == IF raw = "" THEN acc ELSE Dispatch(acc, JsonParse(raw))

\* the body of `for (const line of lines)`.  acc holds the component state,
\* whether handleEvent has thrown, and the events handed to handleEvent
ProcessLine(acc, line) ==
  IF acc.threw \/ ~StartsWith(line, DataPrefix) THEN acc
  ELSE ProcessRaw(acc, Trim(SliceFrom(line, Len(DataPrefix) + 1)))

RECURSIVE ProcessLines(_, _)
\* for (const line of lines)
ProcessLines(acc, lines) ==
  IF lines = <<>> THEN acc
  ELSE ProcessLines(ProcessLine(acc, Head(lines)), Tail(lines))

RECURSIVE ProcessParts(_, _)
\* for (const part of parts)
ProcessParts(acc, parts) ==
  IF parts = <<>> THEN acc
  ELSE ProcessParts(ProcessLines(acc, Split(Head(parts), "\n")), Tail(parts))

\* a read loop that drops the segment after the last delimiter
KeptSegment_Dropped(parts) == ""

\* buffer = parts.pop() ?? ''
KeptSegment(parts) == parts[Len(parts)]

\* what one pass of the while loop leaves behind: the component state,
\* whether handleEvent threw, the events handed to handleEvent, and the
\* loop's decoder state and buffer
LoopResult(acc, pending, kept) ==
  [ui |-> acc.ui, threw |-> acc.threw, events |-> acc.events,
   pending |-> pending, buffer |-> kept]

\* const parts = buffer.split('\n\n'); buffer = parts.pop() ?? ''; then the
\* parts that are left are processed
ProcessBuffer(ui, pending, parts) ==
  LoopResult(ProcessParts([ui |-> ui, threw |-> FALSE, events |-> <<>>],
                          SubSeq(parts, 1, Len(parts) - 1)),
             pending, KeptSegment(parts))

\* buffer += decoder.decode(value, { stream: true })
AppendDecoded(buffer, ui, decoded) ==
  ProcessBuffer(ui, decoded.pending, Split(buffer \o decoded.text, FrameDelimiter))

\* one pass of the while loop after reader.read() returned `value`: from the
\* loop's decoder state and buffer and the component state to the new ones
ReadLoopBody(pending, buffer, ui, value) ==
  AppendDecoded(buffer, ui, DecodeStream(pending, value))

\* a catch block that does not show the message of the error
Catch_UnknownError(ui, err) ==
  IF err.name = "AbortError"
  THEN [ui EXCEPT !.phase = "cancelled",
                  !.statusMessage = "Generation cancelled."]
  ELSE [ui EXCEPT !.phase = "error", !.errorMessage = "Unknown error"]

\* the catch block of startGeneration
Catch(ui, err) ==
  IF err.name = "AbortError"
  THEN [ui EXCEPT !.phase = "cancelled",
                  !.statusMessage = "Generation cancelled."]
  ELSE [ui EXCEPT !.phase = "error",
                  !.errorMessage =
                     IF err.message # "" THEN err.message ELSE "Unknown error"]

(***************************************************************************)
(* Activations of startGeneration.  Each call is one run: it awaits the    *)
(* fetch ("fetch"), then reader.read() in the loop ("read"), and has ended *)
(* by break ("done"), in the catch block after an error ("failed") or in   *)
(* the catch block after an abort ("cancelled").  The record of a run that *)
(* has ended is kept until the next call of startGeneration.               *)
(***************************************************************************)
Runs == 1..MaxRuns

Ended == {"done", "failed", "cancelled"}

\* wire: the bytes of the response body; flushes: the positions in it where
\* a write of the server ends; pos: the bytes returned by reader.read() so
\* far; pending, buffer: the loop's decoder state and buffer; events: the
\* events the loop has handed to handleEvent; onComplete, onCancel: how
\* often props.onComplete was invoked by the loop, and props.onCancel by
\* handleCancel while the run was the one of abortRef; status, hasBody: the
\* status of the response the fetch resolved with, 0 before it, and whether
\* the response has a body
UnusedRun ==
  [pc |-> "unused", aborted |-> FALSE, wire |-> "", flushes |-> {}, pos |-> 0,
   pending |-> "", buffer |-> "", events |-> <<>>,
   onComplete |-> 0, onCancel |-> 0, status |-> 0, hasBody |-> FALSE]

\* a run awaits a promise that its aborted signal has rejected: the catch
\* block runs as a microtask, before any other task of the event loop
AbortPending ==
  \E r \in Runs : runs[r].aborted /\ runs[r].pc \in {"fetch", "read"}

\* the bytes of run r not yet returned by reader.read()
Unread(r) == Len(runs[r].wire) - runs[r].pos

GenInit ==
  /\ phase = InitialUI.phase
  /\ percent = InitialUI.percent
  /\ statusMessage = InitialUI.statusMessage
  /\ streamedText = InitialUI.streamedText
  /\ complianceScore = InitialUI.complianceScore
  /\ isCompliant = InitialUI.isCompliant
  /\ errorMessage = InitialUI.errorMessage
  /\ abortRef = 0
  /\ runs = [r \in Runs |-> UnusedRun]
  /\ textRuns = {}

(***************************************************************************)
(* Actions of the StreamingGenerator component.                            *)
(***************************************************************************)
\* the runs still under way when startGeneration is called
LiveRuns == [r \in Runs |-> IF runs[r].pc \in Ended THEN UnusedRun ELSE runs[r]]

\* the "Generate 510(k) Document" button, rendered while phase is idle,
\* calls startGeneration, which runs up to its first await
StartGeneration ==
  /\ ~AbortPending
  /\ phase = "idle"
  /\ \E r \in Runs : LiveRuns[r].pc = "unused"
  /\ LET new == Least({r \in Runs : LiveRuns[r].pc = "unused"})
     IN  /\ runs' = [LiveRuns EXCEPT ![new].pc = "fetch"]
         /\ abortRef' = new
  /\ phase' = "connecting"
  /\ percent' = 0
  /\ statusMessage' = "Connecting to generation service..."
  /\ streamedText' = ""
  /\ errorMessage' = ""
  /\ complianceScore' = Undefined
  /\ isCompliant' = "null"
  /\ textRuns' = {}

RECURSIVE Join(_)
\* the bytes of a sequence of writes
Join(writes) == IF writes = <<>> THEN "" ELSE Head(writes) \o Join(Tail(writes))

\* the positions where the writes end
FlushPoints(writes) == {Len(Join(SubSeq(writes, 1, n))) : n \in 1..Len(writes)}

\* the responses of the generate-stream endpoint with the given bodies, a
\* body being the sequence of the server's writes
Responses(bodies) ==
  [ok : {TRUE}, status : {200}, statusText : {"OK"}, hasBody : {TRUE}, body : bodies]
  \cup [ok : {TRUE}, status : {200}, statusText : {"OK"}, hasBody : {FALSE}, body : {<<>>}]
  \cup [ok : {FALSE}, status : {500}, statusText : {"Internal Server Error"},
        hasBody : {TRUE}, body : {<<>>}]
  \cup [ok : {FALSE}, status : {409}, statusText : {"Conflict"},
        hasBody : {TRUE}, body : {<<>>}]

\* the fetch of run r resolves with `response`
FetchResponse(r, response) ==
  /\ ~AbortPending
  /\ runs[r].pc = "fetch"
  /\ IF ~response.ok
     THEN /\ SetUI(Catch(UI(0), Err("Error",
                 "Server returned " \o ToString(response.status) \o ": "
                                    \o response.statusText)))
          /\ runs' = [runs EXCEPT ![r].pc = "failed",
                                  ![r].status = response.status,
                                  ![r].hasBody = response.hasBody]
     ELSE IF ~response.hasBody
     THEN /\ SetUI(Catch(UI(0), Err("Error", "Response has no readable body")))
          /\ runs' = [runs EXCEPT ![r].pc = "failed",
                                  ![r].status = response.status]
     ELSE /\ SetUI([UI(0) EXCEPT !.phase = "running"])
          /\ runs' = [runs EXCEPT ![r].pc = "read",
                                  ![r].status = response.status,
                                  ![r].hasBody = TRUE,
                                  ![r].wire = Join(response.body),
                                  ![r].flushes = FlushPoints(response.body)]
  /\ UNCHANGED <<abortRef, textRuns>>

\* the fetch of run r rejects: the network failed
FetchReject(r) ==
  /\ ~AbortPending
  /\ runs[r].pc = "fetch"
  /\ SetUI(Catch(UI(0), Err("TypeError", "Failed to fetch")))
  /\ runs' = [runs EXCEPT ![r].pc = "failed"]
  /\ UNCHANGED <<abortRef, textRuns>>

\* the loop of run r has consumed k more bytes with the result res
Consume(r, k, res) ==
  /\ SetUI(IF res.threw THEN Catch(res.ui, NullTypeError) ELSE res.ui)
  /\ runs' = [runs EXCEPT ![r].pos = @ + k,
                          ![r].pending = res.pending,
                          ![r].buffer = res.buffer,
                          ![r].events = @ \o res.events,
                          ![r].onComplete = res.ui.onCompleteCalls,
                          ![r].pc = IF res.threw THEN "failed" ELSE "read"]
  /\ textRuns' = IF res.ui.streamedText # streamedText
                 THEN textRuns \cup {r} ELSE textRuns

\* reader.read() of run r resolves with the next k bytes of the body, and
\* the loop body runs up to the next reader.read()
Read(r, k) ==
  /\ ~AbortPending
  /\ runs[r].pc = "read"
  /\ k \in 1..Unread(r)
  /\ Consume(r, k, ReadLoopBody(runs[r].pending, runs[r].buffer,
                                UI(runs[r].onComplete),
                                SubSeq(runs[r].wire, runs[r].pos + 1, runs[r].pos + k)))
  /\ UNCHANGED abortRef

\* reader.read() of run r resolves with done: the server closed the stream
\* after its last byte, and the loop is left by break
ReadDone(r) ==
  /\ ~AbortPending
  /\ runs[r].pc = "read"
  /\ Unread(r) = 0
  /\ runs' = [runs EXCEPT ![r].pc = "done"]
  /\ UNCHANGED <<phase, percent, statusMessage, streamedText, complianceScore,
                 isCompliant, errorMessage, abortRef, textRuns>>

\* reader.read() of run r rejects: the connection dropped
ReadReject(r) ==
  /\ ~AbortPending
  /\ runs[r].pc = "read"
  /\ SetUI(Catch(UI(0), Err("TypeError", "network error")))
  /\ runs' = [runs EXCEPT ![r].pc = "failed"]
  /\ UNCHANGED <<abortRef, textRuns>>

\* the promise run r awaits was rejected by its aborted signal
AbortCatch(r) ==
  /\ runs[r].aborted
  /\ runs[r].pc \in {"fetch", "read"}
  /\ SetUI(Catch(UI(0), Err("AbortError", "The user aborted a request.")))
  /\ runs' = [runs EXCEPT ![r].pc = "cancelled"]
  /\ UNCHANGED <<abortRef, textRuns>>

\* a handleCancel that does not abort the fetch
AbortCurrent_NoAbort ==
  IF abortRef = 0 THEN runs ELSE [runs EXCEPT ![abortRef].onCancel = @ + 1]

\* abortRef.current?.abort(), and onCancel?.() counted on the same run
AbortCurrent ==
  IF abortRef = 0 THEN runs
  ELSE [runs EXCEPT ![abortRef].aborted = TRUE, ![abortRef].onCancel = @ + 1]

\* the Cancel button, rendered while isActive, calls handleCancel
HandleCancel ==
  /\ ~AbortPending
  /\ phase \in {"running", "connecting"}
  /\ runs' = AbortCurrent
  /\ phase' = "cancelled"
  /\ statusMessage' = "Cancelled by user."
  /\ UNCHANGED <<percent, streamedText, complianceScore, isCompliant,
                 errorMessage, abortRef, textRuns>>

\* the Retry / Regenerate button, rendered in the phases completed, error
\* and cancelled
Reset ==
  /\ ~AbortPending
  /\ phase \in {"completed", "error", "cancelled"}
  /\ phase' = "idle"
  /\ percent' = 0
  /\ statusMessage' = ""
  /\ streamedText' = ""
  /\ errorMessage' = ""
  /\ complianceScore' = Undefined
  /\ isCompliant' = "null"
  /\ textRuns' = {}
  /\ UNCHANGED <<abortRef, runs>>

(***************************************************************************)
(* Response bodies of the generate-stream endpoint.                        *)
(***************************************************************************)
\* one frame of the event stream: a data line and a blank line
Frame(json) == DataPrefix \o json \o FrameDelimiter

\* started, progress(25), chunk 'Sec', chunk 'tion 1', chunk '...',
\* completed(score 92, compliant), each frame one write
ScenarioB ==
  <<Frame(JStarted), Frame(JProgress25), Frame(JChunkSec), Frame(JChunkTion1),
    Frame(JChunkDots), Frame(JCompleted92)>>

\* the stream goes on after an error event
ErrorThenMore ==
  <<Frame(JStarted), Frame(JError), Frame(JChunkDots), Frame(JCompleted60)>>

\* the stream goes on after a completed event
CompletedThenMore ==
  <<Frame(JChunkSec), Frame(JCompletedBare), Frame(JProgress10), Frame(JErrorBare)>>

\* the server closes the stream without a terminal event
NoTerminalEvent == <<Frame(JStartedBare), Frame(JChunkSec)>>

\* frames that are not events, between events
WithNoise ==
  <<Frame(JProgress25), Frame(JMalformed), Frame(JPing) \o Frame(JChunkEmpty),
    Frame(JNull), Frame(JChunkSec)>>

\* the server closes the stream before the delimiter of the last frame
TrailingFrame == <<Frame(JProgress10), Frame(JChunkTion1), DataPrefix \o JCompleted60>>

\* the bodies of the specifications of the lifecycle
LifecycleBodies ==
  {ScenarioB, ErrorThenMore, CompletedThenMore, NoTerminalEvent, WithNoise,
   TrailingFrame}

\* the phases of a run of the orchestrator, in their order
Phases ==
  <<"Load", "Predicate", "Documents", "Retrieve", "Prompt", "Generate", "Score",
    "Persist">>

\* the percent of the progress update a phase emits on entry: the floors of
\* the phases, Generate starting at the floor of Prompt
PhaseFloors == <<2, 8, 15, 25, 30, 30, 95, 100>>

\* the events a phase emits: the progress update on entry and, in Generate,
\* the increments of the provider relayed as chunks with the steps of the
\* ramp between them
PhaseEvents(p) ==
  IF Phases[p] = "Generate"
  THEN <<JPhase(PhaseFloors[p]), JChunkSec, JPhase(60), JChunkTion1, JPhase(90),
         JChunkDots>>
  ELSE <<JPhase(PhaseFloors[p])>>

RECURSIVE EventsUpTo(_)
\* the events of the phases up to phase p, after started
EventsUpTo(p) ==
  IF p = 0 THEN <<JStarted>> ELSE EventsUpTo(p - 1) \o PhaseEvents(p)

\* the events of a run of the orchestrator that completes: started, the
\* progress updates of the phases in their order with the increments of the
\* provider relayed as chunks, and completed
OrchestratorEvents == Append(EventsUpTo(Len(Phases)), JCompleted92)

\* a run of the orchestrator that fails after n events: a terminal error
\* event, and nothing after it
FailedAfter(n) == Append(SubSeq(OrchestratorEvents, 1, n), JError)

\* the event streams of the orchestrator
OrchestratorStreams ==
  {OrchestratorEvents}
  \cup {FailedAfter(n) : n \in 2..(Len(OrchestratorEvents) - 1)}

\* the transport writes each event as one frame
Transport(events) == [n \in DOMAIN events |-> Frame(events[n])]

\* the bodies the generate-stream endpoint serves for the orchestrator
OrchestratedBodies == {Transport(events) : events \in OrchestratorStreams}

\* the two-byte character inside a chunk, as the wire carries it
JChunkTwoByteWire ==
  "{\"type\":\"chunk\",\"text\":\"" \o Utf8Lead \o Utf8Trail \o "\"}"

\* two frames
TwoFrames == <<Frame(JChunkSec) \o Frame(JCompletedBare)>>

\* a part of several lines: a field that is not data, and data lines with
\* white space around the JSON text
SeveralLines ==
  <<"event: m\n" \o DataPrefix \o JStartedBare \o "\n"
      \o DataPrefix \o "  " \o JChunkDots \o " " \o FrameDelimiter>>

\* a frame that is not JSON, a two-byte character, and a last frame that the
\* server does not end with the delimiter
CutOff ==
  <<Frame(JMalformed) \o Frame(JChunkTwoByteWire) \o DataPrefix \o JErrorBare>>

\* three newlines between two frames
ThreeNewlines == <<Frame(JPing) \o "\n" \o Frame(JErrorBare)>>

\* the bodies of the specification of the reads
SplitBodies == {TwoFrames, SeveralLines, CutOff, ThreeNewlines}

\* a reader.read() that returns what the server wrote up to one of its
\* flushes
ReadWrites(r) ==
  \E k \in {f - runs[r].pos : f \in runs[r].flushes} : Read(r, k)

(***************************************************************************)
(* The review checklist of SubmissionDetailPage.                           *)
(***************************************************************************)
VARIABLES
  activeReview,   \* the activeReview state of the page, NoReview for null
  pageError,      \* the error state of the page
  calls,          \* the activations of handleChecklistUpdate
  serverItems,    \* the checklist items of the review as the server stores them
  accepted,       \* history: a PATCH response has been applied since the load
  updates,        \* history: the number of calls of handleChecklistUpdate
  lastApplied     \* history: per item, the last PATCH response applied

reviewVars ==
  <<activeReview, pageError, calls, serverItems, accepted, updates, lastApplied>>

VARIABLES
  reviews,        \* the reviews state of the page
  load,           \* the activation of loadAll
  creates,        \* the activations of handleCreateReview
  decisions,      \* the requests of the Approve and Request Revision buttons
  serverReviews   \* the reviews of the submission as the server stores them

roundVars == <<reviews, load, creates, decisions, serverReviews>>

ItemIds == 1..NumItems

\* a checklist item; completeness_percent is a number, or Undefined for null
Item(id, applicable, complete, completeness) ==
  [id |-> id, is_applicable |-> applicable, is_complete |-> complete,
   completeness_percent |-> completeness]

\* no item
NoItem == Item(0, FALSE, FALSE, Undefined)

\* useState<any>(null)
NoReview ==
  [id |-> 0, checklist |-> <<>>, overall_progress |-> 0, status |-> "",
   review_round |-> 0]

\* the id of the one review of the submission
ReviewId == 1

\* a filter that keeps every item
Applicable_All(newChecklist) == newChecklist

\* const applicable = newChecklist.filter(c => c.is_applicable)
Applicable(newChecklist) == SelectSeq(newChecklist, LAMBDA c : c.is_applicable)

\* c.completeness_percent || 0
OrZero(n) == IF n = Undefined THEN 0 ELSE n

RECURSIVE SumCompleteness(_)
\* applicable.reduce((s, c) => s + (c.completeness_percent || 0), 0)
SumCompleteness(applicable) ==
  IF applicable = <<>> THEN 0
  ELSE SumCompleteness(SubSeq(applicable, 1, Len(applicable) - 1))
         + OrZero(applicable[Len(applicable)].completeness_percent)

\* a mean that is rounded down
MathRound_Floor(sum, length) == sum \div length

\* Math.round(sum / length) for length > 0: the nearest integer, a tie
\* going up
MathRound(sum, length) == (2 * sum + length) \div (2 * length)

\* const prog = applicable.length ? Math.round(... / applicable.length) : 0
Progress(applicable) ==
  IF Len(applicable) # 0
  THEN MathRound(SumCompleteness(applicable), Len(applicable))
  ELSE 0

\* the overall progress handleChecklistUpdate computes for newChecklist
Recompute(newChecklist) == Progress(Applicable(newChecklist))

\* a merge that adds the completeness of the update to that of the item
Merge_Accumulates(c, updated) ==
  [f \in DOMAIN c \cup DOMAIN updated |->
     IF f = "completeness_percent"
     THEN OrZero(c[f]) + OrZero(updated[f])
     ELSE IF f \in DOMAIN updated THEN updated[f] ELSE c[f]]

\* { ...c, ...updated }
Merge(c, updated) ==
  [f \in DOMAIN c \cup DOMAIN updated |->
     IF f \in DOMAIN updated THEN updated[f] ELSE c[f]]

\* (checklist || []).map(c => c.id === itemId ? { ...c, ...updated } : c)
NewChecklist(checklist, itemId, updated) ==
  [i \in DOMAIN checklist |->
     IF checklist[i].id = itemId THEN Merge(checklist[i], updated)
     ELSE checklist[i]]

\* an updater that installs the checklist without the progress
ApplyUpdate_KeepsProgress(prev, newChecklist, prog) ==
  [prev EXCEPT !.checklist = newChecklist]

\* an updater that approves the review when its progress is 100
ApplyUpdate_ApprovesWhenComplete(prev, newChecklist, prog) ==
  [prev EXCEPT !.checklist = newChecklist, !.overall_progress = prog,
               !.status = IF prog = 100 THEN "approved" ELSE @]

\* the updater prev => ({ ...prev, checklist: newChecklist, overall_progress: prog })
ApplyUpdate(prev, newChecklist, prog) ==
  [prev EXCEPT !.checklist = newChecklist, !.overall_progress = prog]

\* what the continuation of handleChecklistUpdate makes of the review prev
\* for the response updated to the PATCH of item itemId, computed from the
\* checklist of the closure
Applied(prev, checklist, itemId, updated) ==
  ApplyUpdate(prev, NewChecklist(checklist, itemId, updated),
              Recompute(NewChecklist(checklist, itemId, updated)))

\* the review after the response of call c has been applied once
AppliedOnce(c) ==
  Applied(activeReview, calls[c].closure.checklist, calls[c].itemId,
          calls[c].updated)

(***************************************************************************)
(* The review endpoints of the server, after sections 4.3 and 6 of the     *)
(* specification: a PATCH of one field of one item returns the updated     *)
(* item, and a review is served with the recomputed overall progress.      *)
(***************************************************************************)
\* the request body { [field]: value } for a boolean value
BoolBody(field, value) == [field |-> field, bool |-> value, number |-> Undefined]

\* the request body { [field]: value } for a number
NumberBody(field, value) == [field |-> field, bool |-> FALSE, number |-> value]

\* the item after the update of the body's field
Patched(item, body) ==
  CASE body.field = "is_complete" -> [item EXCEPT !.is_complete = body.bool]
    [] body.field = "completeness_percent" ->
         [item EXCEPT !.completeness_percent = body.number]
    [] OTHER -> item

\* GET /reviews/{id}: the review with its checklist.  serverItems stands
\* for the checklist of the review the page works on
Served(id) ==
  [id |-> id, checklist |-> serverItems,
   overall_progress |-> Recompute(serverItems),
   status |-> serverReviews[id].status,
   review_round |-> serverReviews[id].review_round]

\* GET /reviews/{id} of the first review
ServedReview == Served(ReviewId)

\* the values completeness_percent has in stored reviews
StoredPercents == {Undefined, 5, 100}

\* the checklists of stored reviews: no item is complete
StoredChecklists ==
  {items \in [ItemIds -> [id : ItemIds, is_applicable : BOOLEAN,
                          is_complete : {FALSE},
                          completeness_percent : StoredPercents]] :
     \A i \in ItemIds : items[i].id = i}

\* values of completeness_percent between 0 and 100, the ends and values
\* next to them
ProgressPercents == {0, 99, 100}

\* the checklists with these values, for every combination of is_applicable
ProgressChecklists ==
  {items \in [ItemIds -> [id : ItemIds, is_applicable : BOOLEAN,
                          is_complete : {FALSE},
                          completeness_percent : ProgressPercents]] :
     \A i \in ItemIds : items[i].id = i}

\* the checklist of a review as seeded at its creation
SeededChecklist == [i \in ItemIds |-> Item(i, TRUE, FALSE, 0)]

(***************************************************************************)
(* Activations of handleChecklistUpdate.  A call awaits the fetch ("sent") *)
(* and then holds the response ("responded") until its continuation runs.  *)
(***************************************************************************)
Calls == 1..MaxCalls

\* closure: the activeReview of the render whose handler was called
UnusedCall ==
  [pc |-> "unused", itemId |-> 0, body |-> NumberBody("", 0), closure |-> NoReview,
   updated |-> NoItem]

\* the page before loadAll has a review
PageInit ==
  /\ activeReview = NoReview
  /\ pageError = ""
  /\ calls = [c \in Calls |-> UnusedCall]
  /\ accepted = FALSE
  /\ updates = 0
  /\ lastApplied = [i \in ItemIds |-> NoItem]

\* the values the range input hands to handleChecklistUpdate
RangeInputs == {50}

\* the updates the rendered checklist offers for an item
Inputs(item) ==
  {BoolBody("is_complete", ~item.is_complete)}
    \cup {NumberBody("completeness_percent", v) : v \in RangeInputs}

(***************************************************************************)
(* Actions of the page.                                                    *)
(***************************************************************************)
\* loadAll on mount: setActiveReview(full)
LoadAll ==
  /\ activeReview.id = 0
  /\ activeReview' = ServedReview
  /\ UNCHANGED <<pageError, calls, serverItems, accepted, updates, lastApplied>>

\* the call of handleChecklistUpdate for item i with the given body has run
\* up to the await of apiFetch
AwaitFetch(c, i, body) ==
  [calls EXCEPT ![c] =
     [pc |-> "sent", itemId |-> activeReview.checklist[i].id, body |-> body,
      closure |-> activeReview, updated |-> NoItem]]

\* an input of item i calls handleChecklistUpdate, which runs up to the
\* await of apiFetch
HandleChecklistUpdate(i, body) ==
  /\ activeReview.id # 0
  /\ \E c \in Calls : calls[c].pc = "unused"
  /\ updates < MaxUpdates
  /\ updates' = updates + 1
  /\ calls' = AwaitFetch(Least({c \in Calls : calls[c].pc = "unused"}), i, body)
  /\ UNCHANGED <<activeReview, pageError, serverItems, accepted, lastApplied>>

\* the server handles the PATCH of call c and returns the updated item
ServerPatch(c) ==
  /\ calls[c].pc = "sent"
  /\ LET i == calls[c].itemId
     IN  /\ serverItems' = [serverItems EXCEPT ![i] = Patched(@, calls[c].body)]
         /\ calls' = [calls EXCEPT ![c].pc = "responded",
                                   ![c].updated = serverItems'[i]]
  /\ UNCHANGED <<activeReview, pageError, accepted, updates, lastApplied>>

\* the continuation of call c after the await: the lines from newChecklist
\* to setActiveReview
ApplyResponse(c) ==
  /\ calls[c].pc = "responded"
  /\ activeReview' =
       ApplyUpdate(activeReview,
                   NewChecklist(calls[c].closure.checklist, calls[c].itemId,
                                calls[c].updated),
                   Recompute(NewChecklist(calls[c].closure.checklist,
                                          calls[c].itemId, calls[c].updated)))
  /\ calls' = [calls EXCEPT ![c] = UnusedCall]
  /\ accepted' = TRUE
  /\ lastApplied' = [lastApplied EXCEPT ![calls[c].itemId] = calls[c].updated]
  /\ UNCHANGED <<pageError, serverItems, updates>>

\* a handler that shows the requested change before the response and does
\* not take it back when apiFetch throws
PatchFail_Optimistic(c) ==
  /\ calls[c].pc = "sent"
  /\ pageError' = "Internal Server Error"
  /\ activeReview' =
       Applied(activeReview, calls[c].closure.checklist, calls[c].itemId,
               Patched(calls[c].closure.checklist[calls[c].itemId], calls[c].body))
  /\ calls' = [calls EXCEPT ![c] = UnusedCall]
  /\ UNCHANGED <<serverItems, accepted, updates, lastApplied>>

\* apiFetch of call c throws, for a response that is not ok: setError(e.message)
PatchFail(c) ==
  /\ calls[c].pc = "sent"
  /\ pageError' = "Internal Server Error"
  /\ calls' = [calls EXCEPT ![c] = UnusedCall]
  /\ UNCHANGED <<activeReview, serverItems, accepted, updates, lastApplied>>

(***************************************************************************)
(* The review workflow of the page: loadAll, handleCreateReview and the    *)
(* Approve and Request Revision buttons, with the review endpoints of the  *)
(* server after section 4.4 of the specification.                          *)
(***************************************************************************)
\* the states of a review that are not final, and those that are
Open == {"draft", "active"}

Decided == {"approved", "rejected"}

\* a review as the list endpoint and the create endpoint return it
Review(id, round, status) == [id |-> id, review_round |-> round, status |-> status]

\* loadAll awaits Promise.allSettled ("settle") and then the fetch of the
\* first review of the list ("full"), whose id is `first`
UnusedLoad == [pc |-> "unused", first |-> 0]

Creates == 1..MaxCreates

\* handleCreateReview awaits the POST ("post") and then the GET of the
\* review the POST returned ("get"); review_round: the round the request
\* carries; rev: the id of the review the POST returned
UnusedCreate == [pc |-> "unused", review_round |-> 0, rev |-> 0]

Decisions == 1..MaxDecisions

\* the PATCH of a review awaits the server ("sent") and then holds the
\* response until the then callback runs ("responded")
UnusedDecision == [pc |-> "unused", id |-> 0, status |-> ""]

\* the one review of a submission whose first round has just been started
OneDraft == <<Review(ReviewId, 1, "draft")>>

\* the workflow of a page where nothing is under way
WorkflowIdle ==
  /\ reviews = <<>>
  /\ load = UnusedLoad
  /\ creates = [c \in Creates |-> UnusedCreate]
  /\ decisions = [d \in Decisions |-> UnusedDecision]

\* the page as mounted: loading is true and the effect has called loadAll
WorkflowInit ==
  /\ reviews = <<>>
  /\ load = [pc |-> "settle", first |-> 0]
  /\ creates = [c \in Creates |-> UnusedCreate]
  /\ decisions = [d \in Decisions |-> UnusedDecision]

\* while loading, the page renders 'Loading submission...' and nothing else
Loading == load.pc # "unused"

\* Promise.allSettled resolves, the submission fetched; listed: the fetch
\* of the review list is fulfilled, with the reviews in the order of their
\* creation
LoadAllSettled(listed) ==
  /\ load.pc = "settle"
  /\ IF listed
     THEN /\ reviews' = serverReviews
          /\ load' = IF Len(serverReviews) > 0
                     THEN [pc |-> "full", first |-> serverReviews[1].id]
                     ELSE UnusedLoad
     ELSE /\ reviews' = reviews
          /\ load' = UnusedLoad
  /\ UNCHANGED <<reviewVars, creates, decisions, serverReviews>>

\* the fetch of the first review resolves: setActiveReview(full); or it
\* throws, and the catch block of loadAll sets the error
LoadAllFull(ok) ==
  /\ load.pc = "full"
  /\ IF ok
     THEN /\ activeReview' = Served(load.first)
          /\ accepted' = FALSE
          /\ lastApplied' = [i \in ItemIds |-> NoItem]
          /\ pageError' = pageError
     ELSE /\ pageError' = "Internal Server Error"
          /\ UNCHANGED <<activeReview, accepted, lastApplied>>
  /\ load' = UnusedLoad
  /\ UNCHANGED <<calls, serverItems, updates, reviews, creates, decisions,
                 serverReviews>>

\* !activeReview ? <button onClick={handleCreateReview}>: the Start Review
\* Workflow and Start 20-Section Review buttons are rendered
StartOffered == ~Loading /\ activeReview.id = 0

\* the reviews the server has and is about to get from the page
ReviewsToBe ==
  Len(serverReviews) + Cardinality({c \in Creates : creates[c].pc = "post"})

\* a Start Review button calls handleCreateReview, which runs up to the
\* await of the POST with review_round: reviews.length + 1
HandleCreateReview ==
  /\ StartOffered
  /\ ReviewsToBe < MaxReviews
  /\ \E c \in Creates : creates[c].pc = "unused"
  /\ creates' = [creates EXCEPT ![Least({c \in Creates : creates[c].pc = "unused"})] =
                   [pc |-> "post", review_round |-> Len(reviews) + 1, rev |-> 0]]
  /\ UNCHANGED <<reviewVars, reviews, load, decisions, serverReviews>>

\* POST /reviews of activation c: the server stores a draft review with the
\* round of the request and returns it
ServerCreate(c) ==
  /\ creates[c].pc = "post"
  /\ serverReviews' =
       Append(serverReviews,
              Review(Len(serverReviews) + 1, creates[c].review_round, "draft"))
  /\ creates' = [creates EXCEPT ![c].pc = "get", ![c].rev = Len(serverReviews) + 1]
  /\ UNCHANGED <<reviewVars, reviews, load, decisions>>

\* the GET of the new review resolves: setActiveReview(full) and
\* setReviews(prev => [...prev, rev])
CreateFull(c) ==
  /\ creates[c].pc = "get"
  /\ activeReview' = Served(creates[c].rev)
  /\ reviews' = Append(reviews, Review(creates[c].rev, creates[c].review_round, "draft"))
  /\ creates' = [creates EXCEPT ![c] = UnusedCreate]
  /\ UNCHANGED <<pageError, calls, serverItems, accepted, updates, lastApplied,
                 load, decisions, serverReviews>>

\* an apiFetch of activation c throws: setError(e.message)
CreateFail(c) ==
  /\ creates[c].pc \in {"post", "get"}
  /\ pageError' = "Internal Server Error"
  /\ creates' = [creates EXCEPT ![c] = UnusedCreate]
  /\ UNCHANGED <<activeReview, calls, serverItems, accepted, updates, lastApplied,
                 reviews, load, decisions, serverReviews>>

RECURSIVE MaxRound(_)
\* the highest round among reviews, 0 for none
MaxRound(stored) ==
  IF stored = <<>> THEN 0
  ELSE LET rest == MaxRound(Tail(stored))
       IN  IF Head(stored).review_round > rest
           THEN Head(stored).review_round ELSE rest

\* a review is in progress
HasOpen(stored) == \E n \in DOMAIN stored : stored[n].status \in Open

\* another client starts the next round, no review being in progress
OtherClientCreate ==
  /\ ReviewsToBe < MaxReviews
  /\ ~HasOpen(serverReviews)
  /\ serverReviews' =
       Append(serverReviews,
              Review(Len(serverReviews) + 1, MaxRound(serverReviews) + 1, "draft"))
  /\ UNCHANGED <<reviewVars, reviews, load, creates, decisions>>

\* buttons that are rendered for a review whose progress is 100 only
DecideOffered_WhenComplete ==
  load.pc = "unused" /\ activeReview.id # 0 /\ activeReview.overall_progress = 100

\* the buttons below the checklist are rendered: the branch of
\* !activeReview ? ... : ... with a review
DecideOffered == ~Loading /\ activeReview.id # 0

\* the Approve Submission or Request Revision button: the PATCH of the
\* review with the status is sent
Decide(status) ==
  /\ DecideOffered
  /\ \E d \in Decisions : decisions[d].pc = "unused"
  /\ decisions' = [decisions EXCEPT ![Least({d \in Decisions : decisions[d].pc = "unused"})] =
                     [pc |-> "sent", id |-> activeReview.id, status |-> status]]
  /\ UNCHANGED <<reviewVars, reviews, load, creates, serverReviews>>

\* PATCH /reviews/{id} of request d: the server stores the status.  Nothing
\* known of the endpoint makes it look at the progress or at the status the
\* review has; a request it refuses is DecideFail
ServerDecide(d) ==
  /\ decisions[d].pc = "sent"
  /\ serverReviews' = [serverReviews EXCEPT ![decisions[d].id].status = decisions[d].status]
  /\ decisions' = [decisions EXCEPT ![d].pc = "responded"]
  /\ UNCHANGED <<reviewVars, reviews, load, creates>>

\* .then(() => loadAll()) of request d
DecideThen(d) ==
  /\ decisions[d].pc = "responded"
  /\ load.pc = "unused"
  /\ load' = [pc |-> "settle", first |-> 0]
  /\ decisions' = [decisions EXCEPT ![d] = UnusedDecision]
  /\ UNCHANGED <<reviewVars, reviews, creates, serverReviews>>

\* the PATCH of request d is refused or fails: the promise rejects, and
\* nothing handles it
DecideFail(d) ==
  /\ decisions[d].pc = "sent"
  /\ decisions' = [decisions EXCEPT ![d] = UnusedDecision]
  /\ UNCHANGED <<reviewVars, reviews, load, creates, serverReviews>>

\* the Refresh button calls loadAll
Refresh ==
  /\ DecideOffered
  /\ load' = [pc |-> "settle", first |-> 0]
  /\ UNCHANGED <<reviewVars, reviews, creates, decisions, serverReviews>>

(***************************************************************************)
(* The generation orchestrator behind the generate-stream endpoint, after  *)
(* sections 4.1, 5 and 7 of the specification: the requests for one        *)
(* submission, the registry that admits one run at a time, the phases of   *)
(* a run with the events they emit, the abort signal of the transport,     *)
(* and the submission record that Persist writes.                          *)
(***************************************************************************)
VARIABLES
  pipeline,       \* the requests for generation and their runs
  submission      \* the submission record as the server stores it

serverVars == <<pipeline, submission>>

Requests == 1..MaxRequests

\* a request that has not been made.  phase: the index in Phases of the
\* phase the run is in, 0 before Load; emitted: the events written to the
\* stream; cancel: the transport has signalled the abort
NoRequest == [pc |-> "idle", phase |-> 0, emitted |-> <<>>, cancel |-> FALSE]

\* the submission record before a run: no document, no score
PreRun == [document |-> "", score |-> Undefined, status |-> "draft"]

PipelineIdle ==
  /\ pipeline = [q \in Requests |-> NoRequest]
  /\ submission = PreRun

RECURSIVE RelayedText(_)
\* the text of the provider's increments among the events of a stream
RelayedText(emitted) ==
  IF emitted = <<>> THEN ""
  ELSE (IF JsonParse(Head(emitted)).type = "chunk"
        THEN JsonParse(Head(emitted)).text ELSE "")
         \o RelayedText(Tail(emitted))

\* save(submissionId, document, score, newStatus) for the text of a stream
\* that is scored as its completed event says
Saved(emitted, completed) ==
  [document |-> RelayedText(emitted),
   score |-> JsonParse(completed).compliance_score,
   status |-> "review_pending"]

\* a run is under way for the submission
RunActive == \E q \in Requests : pipeline[q].pc = "active"

\* a client opens the generation stream
Request(q) ==
  /\ pipeline[q].pc = "idle"
  /\ pipeline' = [pipeline EXCEPT ![q].pc = "requested"]
  /\ UNCHANGED submission

\* a registry that admits a request whatever else is running
Admit_Unchecked(q) ==
  /\ pipeline[q].pc = "requested"
  /\ pipeline' = [pipeline EXCEPT ![q].pc = "active", ![q].emitted = <<JStarted>>]
  /\ UNCHANGED submission

\* the registry admits the request, no run being active: the run is
\* created and emits started
Admit(q) ==
  /\ pipeline[q].pc = "requested"
  /\ ~RunActive
  /\ pipeline' = [pipeline EXCEPT ![q].pc = "active", ![q].emitted = <<JStarted>>]
  /\ UNCHANGED submission

\* the registry rejects the request with the conflict signal, a run being
\* active
Reject(q) ==
  /\ pipeline[q].pc = "requested"
  /\ RunActive
  /\ pipeline' = [pipeline EXCEPT ![q].pc = "rejected"]
  /\ UNCHANGED submission

\* the events of the current phase are all emitted
PhaseDone(q) ==
  pipeline[q].emitted = EventsUpTo(pipeline[q].phase)

\* a run that leaves out Predicate after Load, going on to Documents
Enter_SkipsPredicate(q) ==
  /\ pipeline[q].pc = "active"
  /\ ~pipeline[q].cancel
  /\ pipeline[q].phase < Len(Phases)
  /\ PhaseDone(q)
  /\ LET next == IF Phases[pipeline[q].phase + 1] = "Predicate"
                 THEN pipeline[q].phase + 2 ELSE pipeline[q].phase + 1
     IN  pipeline' = [pipeline EXCEPT
                        ![q].phase = next,
                        ![q].emitted = Append(@, PhaseEvents(next)[1])]
  /\ UNCHANGED submission

\* the run enters its next phase and emits the progress update of the
\* phase; the abort signal is checked at the phase transition
Enter(q) ==
  /\ pipeline[q].pc = "active"
  /\ ~pipeline[q].cancel
  /\ pipeline[q].phase < Len(Phases)
  /\ PhaseDone(q)
  /\ pipeline' = [pipeline EXCEPT
                    ![q].phase = @ + 1,
                    ![q].emitted = Append(@, PhaseEvents(pipeline[q].phase + 1)[1])]
  /\ UNCHANGED submission

\* the run emits the next event of its phase: an increment of the provider
\* or a step of the ramp; the abort signal is checked at every increment
Relay(q) ==
  /\ pipeline[q].pc = "active"
  /\ ~pipeline[q].cancel
  /\ pipeline[q].phase > 0
  /\ ~PhaseDone(q)
  /\ pipeline' = [pipeline EXCEPT
                    ![q].emitted =
                       Append(@, EventsUpTo(pipeline[q].phase)[Len(@) + 1])]
  /\ UNCHANGED submission

\* a collaborator of a phase fails: the terminal error event, the run stops
Fail(q) ==
  /\ pipeline[q].pc = "active"
  /\ pipeline[q].phase > 0
  /\ pipeline' = [pipeline EXCEPT ![q].pc = "failed",
                                  ![q].emitted = Append(@, JError)]
  /\ UNCHANGED submission

\* a Persist that does not check the abort signal
Complete_Unchecked(q) ==
  /\ pipeline[q].pc = "active"
  /\ pipeline[q].phase = Len(Phases)
  /\ PhaseDone(q)
  /\ submission' = Saved(pipeline[q].emitted, JCompleted92)
  /\ pipeline' = [pipeline EXCEPT ![q].pc = "completed",
                                  ![q].emitted = Append(@, JCompleted92)]

\* Persist: the document, the score and the status are written at once,
\* and the run emits completed; the abort signal is checked before
Complete(q) ==
  /\ pipeline[q].pc = "active"
  /\ ~pipeline[q].cancel
  /\ pipeline[q].phase = Len(Phases)
  /\ PhaseDone(q)
  /\ submission' = Saved(pipeline[q].emitted, JCompleted92)
  /\ pipeline' = [pipeline EXCEPT ![q].pc = "completed",
                                  ![q].emitted = Append(@, JCompleted92)]

\* the transport signals the abort of the request: handleCancel has aborted
\* the fetch, or the client has disconnected
Cancel(q) ==
  /\ pipeline[q].pc = "active"
  /\ ~pipeline[q].cancel
  /\ pipeline' = [pipeline EXCEPT ![q].cancel = TRUE]
  /\ UNCHANGED submission

\* the run sees the abort signal at a suspension point and stops
Stop(q) ==
  /\ pipeline[q].pc = "active"
  /\ pipeline[q].cancel
  /\ pipeline' = [pipeline EXCEPT ![q].pc = "stopped"]
  /\ UNCHANGED submission

(***************************************************************************)
(* Specifications.                                                         *)
(***************************************************************************)
vars == <<genVars, reviewVars, roundVars, serverVars>>

\* a step of the generator leaves the page's review alone
Gen(step) == step /\ UNCHANGED <<reviewVars, roundVars, serverVars>>

\* a step of the page's review, the generator not started
Page(step) == step /\ UNCHANGED <<genVars, roundVars, serverVars>>

\* the generator on a page whose review has just been created
Init ==
  /\ GenInit
  /\ PageInit
  /\ serverItems = SeededChecklist
  /\ WorkflowIdle
  /\ PipelineIdle
  /\ serverReviews = OneDraft

Next ==
  \/ Gen(StartGeneration)
  \/ \E r \in Runs, response \in Responses(LifecycleBodies) :
        Gen(FetchResponse(r, response))
  \/ \E r \in Runs : Gen(FetchReject(r))
  \/ \E r \in Runs : Gen(ReadWrites(r))
  \/ \E r \in Runs : Gen(ReadDone(r))
  \/ \E r \in Runs : Gen(ReadReject(r))
  \/ \E r \in Runs : Gen(AbortCatch(r))
  \/ Gen(HandleCancel)
  \/ Gen(Reset)

\* the component with at most MaxRuns runs under way at a time, each read
\* returning whole writes of the server
Spec == Init /\ [][Next]_vars

NextRun ==
  \/ Gen(StartGeneration)
  \/ \E r \in Runs, response \in Responses(LifecycleBodies) :
        Gen(FetchResponse(r, response))
  \/ \E r \in Runs : Gen(FetchReject(r))
  \/ \E r \in Runs : Gen(ReadWrites(r))
  \/ \E r \in Runs : Gen(ReadDone(r))
  \/ \E r \in Runs : Gen(ReadReject(r))
  \/ \E r \in Runs : Gen(AbortCatch(r))
  \/ Gen(HandleCancel)

\* one run of the component: the Retry / Regenerate button is not used
SpecRun == Init /\ [][NextRun]_vars

NextOrchestrated ==
  \/ Gen(StartGeneration)
  \/ \E r \in Runs, response \in Responses(OrchestratedBodies) :
        Gen(FetchResponse(r, response))
  \/ \E r \in Runs : Gen(FetchReject(r))
  \/ \E r \in Runs : Gen(ReadWrites(r))
  \/ \E r \in Runs : Gen(ReadDone(r))
  \/ \E r \in Runs : Gen(ReadReject(r))
  \/ \E r \in Runs : Gen(AbortCatch(r))
  \/ Gen(HandleCancel)

\* one run of the component against the orchestrator
SpecOrchestrated == Init /\ [][NextOrchestrated]_vars

NextSplit ==
  \/ Gen(StartGeneration)
  \/ \E r \in Runs, response \in Responses(SplitBodies) :
        Gen(FetchResponse(r, response))
  \/ \E r \in Runs : \E k \in 1..Unread(r) : Gen(Read(r, k))
  \/ \E r \in Runs : Gen(ReadDone(r))

\* one run of the component, each read returning any number of the bytes
\* that are left
SpecSplit == Init /\ [][NextSplit]_vars

\* the page of a submission with a stored review
InitReview ==
  /\ GenInit
  /\ PageInit
  /\ serverItems \in StoredChecklists
  /\ WorkflowIdle
  /\ PipelineIdle
  /\ serverReviews = OneDraft

NextReview ==
  \/ Page(LoadAll)
  \/ \E i \in ItemIds :
        /\ activeReview.id # 0
        /\ \E body \in Inputs(activeReview.checklist[i]) :
              Page(HandleChecklistUpdate(i, body))
  \/ \E c \in Calls : Page(ServerPatch(c))
  \/ \E c \in Calls : Page(ApplyResponse(c))
  \/ \E c \in Calls : Page(PatchFail(c))

\* the values the range input of the last item is moved to
ProgressInputs == {0, 100}

InitProgress ==
  /\ GenInit
  /\ PageInit
  /\ serverItems \in ProgressChecklists
  /\ WorkflowIdle
  /\ PipelineIdle
  /\ serverReviews = OneDraft

NextProgress ==
  \/ Page(LoadAll)
  \/ \E v \in ProgressInputs :
        Page(HandleChecklistUpdate(NumItems, NumberBody("completeness_percent", v)))
  \/ \E c \in Calls : Page(ServerPatch(c))
  \/ \E c \in Calls : Page(ApplyResponse(c))

\* the progress of the page over checklists with every combination of
\* is_applicable and of the values of ProgressPercents, the range of the
\* last item being moved
SpecProgress == InitProgress /\ [][NextProgress]_vars

\* the checklist of the page with at most MaxCalls updates under way at a
\* time and MaxUpdates updates in all
SpecReview == InitReview /\ [][NextReview]_vars

\* a step of the orchestrator, the page left alone
Srv(step) == step /\ UNCHANGED <<genVars, reviewVars, roundVars>>

NextPipeline ==
  \/ \E q \in Requests : Srv(Request(q))
  \/ \E q \in Requests : Srv(Admit(q))
  \/ \E q \in Requests : Srv(Reject(q))
  \/ \E q \in Requests : Srv(Enter(q))
  \/ \E q \in Requests : Srv(Relay(q))
  \/ \E q \in Requests : Srv(Fail(q))
  \/ \E q \in Requests : Srv(Complete(q))
  \/ \E q \in Requests : Srv(Cancel(q))
  \/ \E q \in Requests : Srv(Stop(q))

\* the orchestrator with MaxRequests requests for one submission
SpecPipeline == Init /\ [][NextPipeline]_vars

\* a step of the workflow of the page, the generator not started
Flow(step) == step /\ UNCHANGED <<genVars, serverVars>>

\* the reviews of a submission when the page is opened
StoredReviews ==
  {<<>>, OneDraft, <<Review(1, 1, "approved")>>,
   <<Review(1, 1, "rejected"), Review(2, 2, "active")>>}

InitRounds ==
  /\ GenInit
  /\ PageInit
  /\ serverItems = SeededChecklist
  /\ WorkflowInit
  /\ PipelineIdle
  /\ serverReviews \in StoredReviews

NextRounds ==
  \/ \E listed \in BOOLEAN : Flow(LoadAllSettled(listed))
  \/ \E ok \in BOOLEAN : Flow(LoadAllFull(ok))
  \/ Flow(HandleCreateReview)
  \/ \E c \in Creates : Flow(ServerCreate(c))
  \/ \E c \in Creates : Flow(CreateFull(c))
  \/ \E c \in Creates : Flow(CreateFail(c))
  \/ Flow(OtherClientCreate)
  \/ Flow(Refresh)

\* the rounds of the reviews of a submission: the page with at most
\* MaxCreates activations of handleCreateReview under way, and another
\* client
SpecRounds == InitRounds /\ [][NextRounds]_vars


\* a checklist that one update completes
NearlyComplete ==
  [i \in ItemIds |-> Item(i, TRUE, FALSE, IF i = NumItems THEN 5 ELSE 100)]

\* the updates followed in SpecDecide: the checkbox, and the range input
\* drawn to its end
DecideInputs(item) ==
  {BoolBody("is_complete", ~item.is_complete),
   NumberBody("completeness_percent", 100)}

InitDecide ==
  /\ GenInit
  /\ PageInit
  /\ serverItems \in {SeededChecklist, NearlyComplete}
  /\ WorkflowInit
  /\ PipelineIdle
  /\ serverReviews \in {OneDraft, <<Review(ReviewId, 1, "active")>>}

NextDecide ==
  \/ \E listed \in BOOLEAN : Flow(LoadAllSettled(listed))
  \/ \E ok \in BOOLEAN : Flow(LoadAllFull(ok))
  \/ /\ DecideOffered
     /\ \E body \in DecideInputs(activeReview.checklist[NumItems]) :
           Page(HandleChecklistUpdate(NumItems, body))
  \/ \E c \in Calls : Page(ServerPatch(c))
  \/ \E c \in Calls : Page(ApplyResponse(c))
  \/ \E c \in Calls : Page(PatchFail(c))
  \/ \E status \in Decided : Flow(Decide(status))
  \/ \E d \in Decisions : Flow(ServerDecide(d))
  \/ \E d \in Decisions : Flow(DecideThen(d))
  \/ \E d \in Decisions : Flow(DecideFail(d))

\* the one review of a submission: the inputs of the last item of its
\* checklist, and the Approve and Request Revision buttons
SpecDecide == InitDecide /\ [][NextDecide]_vars

(***************************************************************************)
(* Properties of the review checklist, under SpecReview.                   *)
(***************************************************************************)
\* no call of handleChecklistUpdate is under way
NoCallUnderWay == \A c \in Calls : calls[c].pc = "unused"

\* C1: once the responses of all calls have been applied, the client's
\* checklist holds, for every item a response was applied for, the item of
\* the last response applied for it, and overall_progress is the
\* recomputation over that checklist: no update is lost or overwritten by a
\* call that started from an earlier checklist
C1_NoLostUpdate ==
  (activeReview.id # 0 /\ NoCallUnderWay) =>
     /\ \A i \in ItemIds :
          lastApplied[i].id # 0 => activeReview.checklist[i] = lastApplied[i]
     /\ activeReview.overall_progress = Recompute(activeReview.checklist)

\* the completeness of an item as a number
PercentOf(item) ==
  IF item.completeness_percent = Undefined THEN 0 ELSE item.completeness_percent

RECURSIVE SumOver(_, _)
\* the sum of the completeness of the items of checklist at the positions S
SumOver(checklist, S) ==
  IF S = {} THEN 0
  ELSE LET i == CHOOSE j \in S : TRUE
       IN  PercentOf(checklist[i]) + SumOver(checklist, S \ {i})

\* r is sum / n rounded to the nearest integer, a tie going up
IsRoundedMean(r, sum, n) == 2 * n * r - n <= 2 * sum /\ 2 * sum < 2 * n * r + n

\* r is 0 if checklist has no applicable item, and else the rounded mean of
\* the completeness of its applicable items
IsProgressOf(r, checklist, S) ==
  IF S = {} THEN r = 0 ELSE IsRoundedMean(r, SumOver(checklist, S), Cardinality(S))

\* the positions of the applicable items
ApplicableAt(checklist) == {i \in DOMAIN checklist : checklist[i].is_applicable}

\* 20 items, 18 of them applicable, with completeness values that sum to 1440
ScenarioA ==
  [i \in 1..20 |->
     Item(i, i <= 18, FALSE, IF i <= 9 THEN 100 ELSE IF i <= 18 THEN 60 ELSE 100)]

\* C7: the progress computed for a checklist is 0 if no item is applicable
\* and else the mean of completeness_percent over the applicable items,
\* rounded to the nearest integer with a tie going up; for scenario A it is
\* 80; and the progress an update installs is that of the checklist it
\* installs
C7_ProgressIsRoundedMean ==
  /\ Recompute(ScenarioA) = 80
  /\ SumOver(ScenarioA, ApplicableAt(ScenarioA)) = 1440
  /\ activeReview.id # 0 =>
       IsProgressOf(Recompute(activeReview.checklist), activeReview.checklist,
                    ApplicableAt(activeReview.checklist))
  /\ accepted =>
       IsProgressOf(activeReview.overall_progress, activeReview.checklist,
                    ApplicableAt(activeReview.checklist))

\* an update has installed the progress of a mean that is a tie: 5 and 50
C7_TieRoundedUp ==
  /\ accepted
  /\ Cardinality(ApplicableAt(activeReview.checklist)) = 2
  /\ SumOver(activeReview.checklist, ApplicableAt(activeReview.checklist)) = 55
  /\ activeReview.overall_progress = 28

\* C8: in every state after a PATCH response has been applied,
\* activeReview.overall_progress is the recomputation over
\* activeReview.checklist
C8_ProgressMatchesChecklist ==
  accepted => activeReview.overall_progress = Recompute(activeReview.checklist)

\* an update has changed an item and the progress with it
C8_ProgressInstalled ==
  /\ accepted
  /\ activeReview.overall_progress # Recompute(serverItems)
  /\ \E i \in ItemIds :
        /\ activeReview.checklist[i].is_applicable
        /\ activeReview.checklist[i].completeness_percent = 50
        /\ lastApplied[i].id # 0

\* the values tried for the completeness of an item that is not applicable
ExcludedPercents == {Undefined, 0, 37, 100}

\* C9: the progress of a checklist stays the same whatever
\* completeness_percent an item that is not applicable stores
C9_ExcludedItemIgnored ==
  activeReview.id # 0 =>
    \A i \in DOMAIN activeReview.checklist :
       ~activeReview.checklist[i].is_applicable =>
          \A v \in ExcludedPercents :
             Recompute([activeReview.checklist EXCEPT ![i].completeness_percent = v])
               = Recompute(activeReview.checklist)

\* an update has been applied to a checklist that has an item that is not
\* applicable and stores 100, next to applicable items of lower progress
C9_ExcludedItemStored ==
  /\ accepted
  /\ \E i \in ItemIds :
        /\ ~activeReview.checklist[i].is_applicable
        /\ activeReview.checklist[i].completeness_percent = 100
  /\ ApplicableAt(activeReview.checklist) # {}
  /\ activeReview.overall_progress < 100

(***************************************************************************)
(* Properties of the read loop, under SpecSplit.                           *)
(***************************************************************************)
\* the loop's pass over the bytes run r has read so far, had they come in
\* one read
OneRead(r) ==
  ReadLoopBody("", "", InitialUI, SubSeq(runs[r].wire, 1, runs[r].pos))

\* the run has handed to handleEvent the events of the pass `one`, with the
\* same text accumulated and the same segment kept
SameAs(run, one) ==
  /\ run.events = one.events
  /\ run.buffer = one.buffer
  /\ run.pending = one.pending
  /\ run.pc # "failed" => streamedText = one.ui.streamedText

\* C2: however the bytes read so far were cut into reads, the loop has
\* dispatched the events it dispatches when they come in one read, and
\* keeps the same segment for the next read
C2_CutsDoNotMatter ==
  \A r \in Runs :
     runs[r].pc \in {"read", "done", "failed"} => SameAs(runs[r], OneRead(r))

\* a read has ended inside the delimiter of the second frame, the first
\* frame dispatched
C2_CutInsideDelimiter ==
  \E r \in Runs :
     /\ runs[r].pc = "read"
     /\ Len(runs[r].events) = 1
     /\ runs[r].buffer = DataPrefix \o JCompletedBare \o "\n"

(***************************************************************************)
(* Properties of the lifecycle, under Spec and SpecRun.                    *)
(***************************************************************************)
\* the user has cancelled the run
Cancelled(run) == run.onCancel > 0

\* the step is one of run r: its loop reads, ends or fails
OwnStep(r) == runs'[r].pc # runs[r].pc \/ runs'[r].pos # runs[r].pos

\* what a step does to the runs that are or get cancelled
StepAfterCancel ==
  \A r \in Runs :
     /\ runs'[r].onCancel > runs[r].onCancel => phase' = "cancelled"
     /\ (Cancelled(runs[r]) /\ Cancelled(runs'[r])) =>
           /\ runs'[r].events = runs[r].events
           /\ runs'[r].onComplete = runs[r].onComplete
           /\ OwnStep(r) =>
                 /\ streamedText' = streamedText
                 /\ percent' = percent
                 /\ complianceScore' = complianceScore
                 /\ phase' = phase

\* C3: the step of a cancel makes the phase cancelled; a run that has been
\* cancelled hands no further event to handleEvent and does not invoke
\* onComplete, and its steps leave streamedText, percent, complianceScore
\* and phase as they are
C3_CancelStopsRun == [][StepAfterCancel]_vars

\* a run was cancelled after its first events, with bytes of its body
\* still unread, and its catch block has run
C3_CancelledMidStream ==
  \E r \in Runs :
     /\ Cancelled(runs[r])
     /\ runs[r].pc = "cancelled"
     /\ runs[r].events # <<>>
     /\ Unread(r) > 0
     /\ phase = "cancelled"

Terminal == {"completed", "error", "cancelled"}

\* a step leaves a terminal phase as it is
TerminalStays == (phase \in Terminal) => (phase' = phase)

\* C4: under SpecRun, where the phase is never reset, a phase that is
\* completed, error or cancelled does not change
C4_TerminalPhaseStays == [][TerminalStays]_vars

\* C5: the chunks that make up streamedText are those of one run
C5_TextOfOneRun == Cardinality(textRuns) <= 1

RECURSIVE ChunkText(_)
\* the texts of the chunk events among events, concatenated in order
ChunkText(events) ==
  IF events = <<>> THEN ""
  ELSE LET e == Head(events)
       IN  (IF e.type = "chunk" /\ e.text # NoString THEN e.text ELSE "")
             \o ChunkText(Tail(events))

\* C6: while a run is shown, streamedText is the concatenation of the texts
\* of the chunk events that run has dispatched so far
C6_TextIsChunksOfRun ==
  (phase # "idle" /\ abortRef # 0) =>
     streamedText = ChunkText(runs[abortRef].events)

\* the state value of an event's compliant field
CompliantOf(event) == IF event.compliant = "undefined" THEN "null" ELSE event.compliant

\* what the dispatch of one completed event does while the phase is running
CompletedDispatched ==
  \A r \in Runs : \A e \in Events :
     ( /\ phase = "running"
       /\ e.type = "completed"
       /\ runs'[r].events = Append(runs[r].events, e) ) =>
        /\ phase' = "completed"
        /\ percent' = 100
        /\ complianceScore' = e.compliance_score
        /\ isCompliant' = CompliantOf(e)
        /\ streamedText' = streamedText
        /\ runs'[r].onComplete = runs[r].onComplete + 1

\* the state in which a run of scenario B ends
ScenarioBOutcome ==
  \A r \in Runs :
     (runs[r].pc = "done" /\ runs[r].wire = Join(ScenarioB)) =>
        /\ phase = "completed"
        /\ percent = 100
        /\ streamedText = "Section 1..."
        /\ complianceScore = 92
        /\ isCompliant = "true"
        /\ runs[r].onComplete = 1

\* C10: under SpecRun, the dispatch of a completed event while the phase is
\* running makes the phase completed and percent 100, sets complianceScore
\* and isCompliant from the event, leaves streamedText alone and invokes
\* onComplete; and the run of scenario B ends completed with the text
\* 'Section 1...' and the score 92
C10_CompletedEvent == [][CompletedDispatched]_vars /\ []ScenarioBOutcome

\* the run of scenario B has read its whole body and ended
C10_ScenarioBEnded ==
  \E r \in Runs :
     /\ runs[r].pc = "done"
     /\ runs[r].wire = Join(ScenarioB)
     /\ Len(runs[r].events) = 6
     /\ phase = "completed"

\* the changes of phase of the state machine of the consumer: a start, a
\* successful response, a completed event, an error event or a failure of
\* the transport, a cancel
ListedChange ==
  \/ phase = "idle" /\ phase' = "connecting"
  \/ phase = "connecting" /\ phase' = "running"
  \/ phase = "running" /\ phase' = "completed"
  \/ phase \in {"connecting", "running"} /\ phase' = "error"
  \/ phase \in {"connecting", "running"} /\ phase' = "cancelled"

\* a step leaves the phase alone or makes a listed change
PhaseStep == phase' = phase \/ ListedChange

\* C11: the phase starts idle, and under SpecRun, where the phase is never
\* reset, every change of phase is idle to connecting, connecting to running,
\* running to completed, connecting or running to error, or connecting or
\* running to cancelled
C11_PhaseChanges == phase = "idle" /\ [][PhaseStep]_vars

\* a step does not lower the percent
PercentStep == percent' >= percent

\* the last event handed to handleEvent by run r is a completed event
CompletedRun(r) ==
  /\ runs[r].events # <<>>
  /\ runs[r].events[Len(runs[r].events)].type = "completed"

\* a run that has completed shows 100
CompletedAt100 == \A r \in Runs : CompletedRun(r) => percent = 100

\* C12: under SpecOrchestrated, one run against the orchestrator, no step
\* lowers the percent (0 at the start, 2 on started, the percent of each
\* progress event, 100 on completed), and the percent of a run that has
\* completed is 100
C12_PercentNeverLower == [][PercentStep]_vars /\ []CompletedAt100

\* the run has dispatched the 15 events of the orchestrator's stream up to
\* the completed event, and has ended
C12_OrchestratedRunEnded ==
  \E r \in Runs :
     /\ runs[r].pc = "done"
     /\ runs[r].wire = Join(Transport(OrchestratorEvents))
     /\ Len(runs[r].events) = 15
     /\ percent = 100
     /\ phase = "completed"

\* the status text of the responses of the model
ReasonPhrase(status) ==
  CASE status = 200 -> "OK"
    [] status = 409 -> "Conflict"
    [] status = 500 -> "Internal Server Error"

\* the text s contains the text d
Contains(s, d) == Occurrences(s, d) # {}

\* the fetch of the run resolved with a response that has a non-success
\* status
NonSuccess(run) == run.status \notin {0, 200}

\* the fetch of the run resolved with a success status and no body
NoBody(run) == run.status = 200 /\ ~run.hasBody

\* errorMessage after the step carries the status code and the status text
\* of the response of the run
CarriesStatus(run) ==
  /\ Contains(errorMessage', ToString(run.status))
  /\ Contains(errorMessage', ReasonPhrase(run.status))

\* the step in which the fetch of run r resolves
Resolves(r) == runs[r].status = 0 /\ runs'[r].status # 0

\* a response that is refused is not read, and a request is issued only in
\* the phase idle, which follows the phase error on Retry alone
RefusedResponseStep ==
  \A r \in Runs :
     /\ (NonSuccess(runs[r]) \/ NoBody(runs[r])) =>
           /\ runs[r].pc = "failed"
           /\ runs[r].events = <<>>
           /\ runs[r].pos = 0
     /\ (runs[r].pc # "fetch" /\ runs'[r].pc = "fetch") => phase = "idle"

\* what the step of a response with a non-success status does
NonSuccessStep ==
  \A r \in Runs :
     (Resolves(r) /\ NonSuccess(runs'[r])) =>
        /\ phase' = "error"
        /\ CarriesStatus(runs'[r])
        /\ \A q \in Runs : runs'[q].pc = "fetch" => runs[q].pc = "fetch"

\* what the step of a response without body does
NoBodyStep ==
  \A r \in Runs :
     (Resolves(r) /\ NoBody(runs'[r])) =>
        /\ phase' = "error"
        /\ errorMessage' = "Response has no readable body"
        /\ \A q \in Runs : runs'[q].pc = "fetch" => runs[q].pc = "fetch"

\* what the claim says of the step of a response without body
NoBodyStepWithStatus ==
  \A r \in Runs :
     (Resolves(r) /\ NoBody(runs'[r])) =>
        /\ phase' = "error"
        /\ CarriesStatus(runs'[r])

\* C18, as the code has it: a response with a non-success status makes the
\* phase error with a message that carries the status code and the status
\* text; a response without body makes the phase error with the message
\* 'Response has no readable body'; in both cases no event of the response
\* is processed, the step issues no request, and a request is issued only
\* from the phase idle
C18_ResponseRefused ==
  [][NonSuccessStep /\ NoBodyStep /\ RefusedResponseStep]_vars

\* C18, as stated: also the message for a response without body carries the
\* status code and the status text
C18_MessageCarriesStatus ==
  [][NonSuccessStep /\ NoBodyStepWithStatus /\ RefusedResponseStep]_vars

\* a request was answered with 409 Conflict and the message shows it; the
\* user has not reset
C18_ConflictShown ==
  \E r \in Runs :
     /\ runs[r].pc = "failed"
     /\ runs[r].status = 409
     /\ phase = "error"
     /\ errorMessage = "Server returned 409: Conflict"

\* C19: once the user has cancelled the run of abortRef, and until the
\* component is reset, the phase is cancelled and errorMessage is empty
C19_CancelIsNoError ==
  (abortRef # 0 /\ Cancelled(runs[abortRef]) /\ phase # "idle") =>
     (phase = "cancelled" /\ errorMessage = "")

\* payloads of frames before and after a frame that is not JSON
NeighbourTexts ==
  {JStarted, JProgress25, JChunkSec, JChunkEmpty, JCompleted92, JErrorBare,
   JPing, JNull}

\* payloads that are not JSON
MalformedTexts == {JMalformed, "keep-alive"}

\* one pass of the loop over the bytes `value`, from the state at hand
OnePass(value) == ReadLoopBody("", "", UI(0), value)

\* a pass over a malformed frame between two frames ends as the pass over
\* the two frames, and a pass over the malformed frame alone changes nothing
MalformedSkipped ==
  \A bad \in MalformedTexts :
     /\ \A a, b \in NeighbourTexts :
           OnePass(Frame(a) \o Frame(bad) \o Frame(b)) = OnePass(Frame(a) \o Frame(b))
     /\ OnePass(Frame(bad)) =
          [ui |-> UI(0), threw |-> FALSE, events |-> <<>>, pending |-> "", buffer |-> ""]

\* run r reads exactly one malformed frame in the step
ReadsMalformed(r) ==
  /\ runs[r].buffer = ""
  /\ runs'[r].pos > runs[r].pos
  /\ \E bad \in MalformedTexts :
        SubSeq(runs[r].wire, runs[r].pos + 1, runs'[r].pos) = Frame(bad)

\* the read of a malformed frame changes nothing but the position of the
\* loop in the stream
MalformedRead ==
  \A r \in Runs :
     ReadsMalformed(r) =>
        /\ UNCHANGED <<phase, percent, streamedText, errorMessage>>
        /\ runs'[r] = [runs[r] EXCEPT !.pos = runs'[r].pos]
        /\ runs'[r].pc = "read"

\* the events of the body WithNoise around its malformed frame
NoiseEvents == <<JsonParse(JProgress25), JsonParse(JPing), JsonParse(JChunkEmpty)>>

\* a run that has read the frames of WithNoise after the malformed one has
\* dispatched the events before and after it in order
NoiseDispatched ==
  \A r \in Runs :
     (runs[r].wire = Join(WithNoise)
        /\ runs[r].pos >= Len(Join(SubSeq(WithNoise, 1, 3)))) =>
        SubSeq(runs[r].events, 1, 3) = NoiseEvents

\* C20: under SpecRun, a frame whose payload is not JSON has no effect: the
\* loop ends a pass over it as if it were not there, its read leaves phase,
\* percent, streamedText and errorMessage alone and the loop goes on
\* reading, and the events before and after it are dispatched in order
C20_MalformedFrameSkipped ==
  [][MalformedRead]_vars /\ [](MalformedSkipped /\ NoiseDispatched)

\* the run of WithNoise has read its malformed frame and the two frames after
\* it, and goes on reading
C20_ReadPastMalformed ==
  \E r \in Runs :
     /\ runs[r].wire = Join(WithNoise)
     /\ runs[r].pos = Len(Join(SubSeq(WithNoise, 1, 3)))
     /\ runs[r].events = NoiseEvents
     /\ runs[r].pc = "read"
     /\ phase = "running"
     /\ errorMessage = ""

(***************************************************************************)
(* Properties of the review workflow, under SpecRounds and SpecDecide.     *)
(***************************************************************************)
\* the round of a create request the server receives is higher than the
\* round of every review of the submission
RoundOfRequest ==
  \A c \in Creates :
     (creates[c].pc = "post" /\ creates'[c].pc = "get") =>
        creates[c].review_round > MaxRound(serverReviews)

\* C13: every create-review request of handleCreateReview carries a
\* review_round greater than the round of every review already created for
\* the submission
C13_RoundsIncrease == [][RoundOfRequest]_vars

\* handleCreateReview is called when no review is in progress
CreateWhenNoneOpen ==
  \A c \in Creates :
     (creates[c].pc = "unused" /\ creates'[c].pc = "post") =>
        ~HasOpen(serverReviews)

\* C14: handleCreateReview is not triggered while a draft or active review
\* exists for the submission
C14_NoRoundWhileOpen == [][CreateWhenNoneOpen]_vars

\* a step leaves a review that is approved or rejected as it is: its
\* status, and the items of its checklist
DecidedReviewStays ==
  \A n \in DOMAIN serverReviews :
     serverReviews[n].status \in Decided =>
        /\ serverReviews'[n] = serverReviews[n]
        /\ serverItems' = serverItems

ShowsOpenReview ==
  /\ ~Loading
  /\ activeReview.id # 0
  /\ activeReview.status \in Open
  /\ \E d \in Decisions : decisions[d].pc = "unused"

\* the server stores the status a request carries
StoredAsSent ==
  \A d \in Decisions :
     (decisions[d].pc = "sent" /\ decisions'[d].pc = "responded") =>
        serverReviews'[decisions[d].id].status = decisions[d].status

\* C16: under SpecDecide, whenever the page shows a draft or active review,
\* whatever its progress and its items, the reviewer can approve it and can
\* reject it, and the status of the request is stored
C16_DecisionAtAnyProgress ==
  /\ [](ShowsOpenReview =>
          /\ ENABLED Flow(Decide("approved"))
          /\ ENABLED Flow(Decide("rejected")))
  /\ [][StoredAsSent]_vars

\* a review was approved with progress 0 and no item complete
C16_ApprovedAtZero ==
  /\ serverReviews[ReviewId].status = "approved"
  /\ Recompute(serverItems) = 0
  /\ \A i \in ItemIds : ~serverItems[i].is_complete
  /\ activeReview.status = "approved"
  /\ activeReview.overall_progress = 0

\* the step is one of an activation of handleChecklistUpdate
ChecklistStep == calls' # calls

\* the status of a review changes by an approve or reject request alone,
\* to the status of the request; a step of handleChecklistUpdate leaves the
\* status alone, on the server and on the page; and the page shows a new
\* status only when loadAll has fetched it
StatusByDecision ==
  /\ \A n \in DOMAIN serverReviews :
        serverReviews'[n].status # serverReviews[n].status =>
           \E d \in Decisions :
              /\ decisions[d].pc = "sent"
              /\ decisions'[d].pc = "responded"
              /\ decisions[d].id = n
              /\ serverReviews'[n].status = decisions[d].status
  /\ ChecklistStep =>
        /\ activeReview'.status = activeReview.status
        /\ serverReviews' = serverReviews
  /\ activeReview'.status # activeReview.status =>
        /\ load.pc = "full"
        /\ activeReview'.status = serverReviews[load.first].status

C24_RecomputeIdempotent ==
  /\ accepted =>
        Applied(activeReview, activeReview.checklist, 0, NoItem) = activeReview
  /\ \A c \in Calls :
        calls[c].pc = "responded" =>
           /\ Applied(AppliedOnce(c), calls[c].closure.checklist,
                      calls[c].itemId, calls[c].updated) = AppliedOnce(c)
           /\ Applied(AppliedOnce(c), AppliedOnce(c).checklist,
                      calls[c].itemId, calls[c].updated) = AppliedOnce(c)

\* a response that sets an item to 50 is about to be applied to a checklist
\* that shows another value, after an earlier update was applied
C24_ResponseToApply ==
  \E c \in Calls :
     /\ calls[c].pc = "responded"
     /\ accepted
     /\ calls[c].updated.completeness_percent = 50
     /\ activeReview.checklist[calls[c].itemId].completeness_percent # 50

\* C25: under SpecRun, once the transport of a run has ended (the stream
\* was closed by the server, the connection failed, or the request was
\* aborted), the phase is completed, error or cancelled, and no longer
\* connecting or running
C25_EndedRunLeavesActive ==
  \A r \in Runs :
     runs[r].pc \in Ended => phase \notin {"connecting", "running"}

\* the buffer of run r holds a data line with an event that was not handed
\* to handleEvent
UndeliveredFrame(r) ==
  /\ StartsWith(runs[r].buffer, DataPrefix)
  /\ JsonParse(Trim(SliceFrom(runs[r].buffer, Len(DataPrefix) + 1))) # SyntaxError

\* C26: under SpecRun, when the stream of a run has ended, no data frame
\* the server sent is left in the buffer: a last frame without the blank
\* line after it has been parsed and handed to handleEvent
C26_LastFrameDispatched ==
  \A r \in Runs : runs[r].pc = "done" => ~UndeliveredFrame(r)

\* run r was started before the last reset and is still under way: the
\* phase has been reset to idle since its start, or a later run has taken
\* its place in abortRef
PreviousRun(r) ==
  /\ runs[r].pc \in {"fetch", "read"}
  /\ phase = "idle" \/ r # abortRef

\* a step of a run from before the last reset leaves the state of the
\* component alone
LateStepSilent ==
  \A r \in Runs :
     (PreviousRun(r) /\ OwnStep(r)) =>
        UNCHANGED <<phase, percent, streamedText, complianceScore, errorMessage>>

\* C27: after Retry / Regenerate has reset a finished run, no event of the
\* stream of that run and no catch block of its request changes phase,
\* percent, streamedText, complianceScore or errorMessage, of the idle state
\* or of the next run
C27_PreviousRunSilent == [][LateStepSilent]_vars

\* a call of handleChecklistUpdate that ends in its catch block leaves the
\* review of the page alone and sets the error message, and a call that
\* reaches apiFetch was made with an active review
FailedPatchStep ==
  \A c \in Calls :
     /\ (calls[c].pc = "sent" /\ calls'[c].pc = "unused") =>
           /\ activeReview' = activeReview
           /\ pageError' # ""
     /\ (calls[c].pc = "unused" /\ calls'[c].pc = "sent") =>
           activeReview.id # 0

\* without an active review no call of handleChecklistUpdate is under way
NoReviewNoRequest ==
  activeReview.id = 0 => (updates = 0 /\ \A c \in Calls : calls[c].pc = "unused")

\* C28: under SpecReview, a PATCH of a checklist item that fails leaves the
\* checklist and overall_progress of the page as they were and sets only
\* the error message, and handleChecklistUpdate sends no request while
\* there is no active review
C28_FailedPatchChangesNothing == [][FailedPatchStep]_vars /\ []NoReviewNoRequest

\* a PATCH has failed after an earlier one was applied, and the page shows
\* the checklist of the earlier one
C28_PatchFailed ==
  /\ pageError # ""
  /\ accepted
  /\ updates = MaxUpdates
  /\ \A c \in Calls : calls[c].pc = "unused"
  /\ \E i \in ItemIds : activeReview.checklist[i] = lastApplied[i]
  /\ activeReview.overall_progress = 50

\* the continuation of a PATCH of is_complete leaves overall_progress at
\* the value it had
FlagPatchKeepsProgress ==
  \A c \in Calls :
     ( /\ calls[c].pc = "responded"
       /\ calls'[c].pc = "unused"
       /\ calls[c].body.field = "is_complete" ) =>
        activeReview'.overall_progress = activeReview.overall_progress

\* C29: under SpecReview, a completed PATCH of a field other than
\* completeness_percent and is_applicable, here is_complete, leaves the
\* overall progress of the page at its previous value
C29_OtherFieldsKeepProgress == [][FlagPatchKeepsProgress]_vars

\* the applicable items of the checklist the page shows
ShownApplicable == Applicable(activeReview.checklist)

\* there is an applicable item, and every applicable item is at 100
AllApplicableAtHundred ==
  /\ Len(ShownApplicable) > 0
  /\ \A n \in DOMAIN ShownApplicable : ShownApplicable[n].completeness_percent = 100

\* there is an applicable item, and the mean of the applicable items is at
\* least 99.5
MeanRoundsToHundred ==
  /\ Len(ShownApplicable) > 0
  /\ 2 * SumCompleteness(ShownApplicable) >= 199 * Len(ShownApplicable)

\* C30: under SpecProgress, with every completeness_percent between 0 and
\* 100 and every combination of is_applicable, the overall progress is an
\* integer between 0 and 100; it is 100 when there is an applicable item
\* and every applicable item is at 100, and it is 100 exactly when there is
\* an applicable item and the mean of the applicable items is at least 99.5
C30_ProgressInRange ==
  activeReview.id # 0 =>
     /\ activeReview.overall_progress \in 0..100
     /\ AllApplicableAtHundred => activeReview.overall_progress = 100
     /\ activeReview.overall_progress = 100 <=> MeanRoundsToHundred

\* C30 as stated: the overall progress is 100 exactly when there is an
\* applicable item and every applicable item is at 100
C30_HundredOnlyWhenAllAtHundred ==
  activeReview.id # 0 =>
     (activeReview.overall_progress = 100 <=> AllApplicableAtHundred)

\* the range of the last item was moved to 100, another applicable item is
\* at 99, and the page shows the progress 100
C30_RoundedToHundred ==
  /\ accepted
  /\ activeReview.overall_progress = 100
  /\ activeReview.checklist[NumItems].completeness_percent = 100
  /\ \E i \in ItemIds :
        /\ activeReview.checklist[i].is_applicable
        /\ activeReview.checklist[i].completeness_percent = 99

\* the requests whose run is active
ActiveRuns == {q \in Requests : pipeline[q].pc = "active"}

\* a request is rejected only while a run is active, and the step that
\* rejects or admits it changes nothing of another request's run
RejectedWhileActive ==
  \A q \in Requests :
     /\ (pipeline[q].pc # "rejected" /\ pipeline'[q].pc = "rejected") =>
           /\ \E a \in Requests \ {q} :
                 pipeline[a].pc = "active" /\ pipeline'[a] = pipeline[a]
           /\ pipeline'[q].emitted = <<>>
           /\ submission' = submission
     /\ (pipeline[q].pc = "requested" /\ pipeline[q].pc # pipeline'[q].pc) =>
           \A a \in Requests \ {q} : pipeline'[a] = pipeline[a]

\* the stream of a run is the stream of one run: a prefix of the events of
\* a run that completes, with a terminal error event after it when the run
\* has failed
OneRunsStream ==
  \A q \in Requests :
     LET emitted == pipeline[q].emitted
     IN  IF pipeline[q].pc = "failed"
         THEN emitted \in {FailedAfter(n) : n \in 2..(Len(OrchestratorEvents) - 1)}
         ELSE /\ Len(emitted) <= Len(OrchestratorEvents)
              /\ emitted = SubSeq(OrchestratorEvents, 1, Len(emitted))

\* C21: under SpecPipeline, at most one run is active for the submission at
\* any time, also when two requests are made before either is answered; a
\* request made while a run is active is rejected, and the rejection
\* leaves the run and its stream as they are
C21_OneActiveRun ==
  /\ [](Cardinality(ActiveRuns) <= 1)
  /\ [][RejectedWhileActive]_vars
  /\ []OneRunsStream

\* a request was rejected, and the run that was active then has completed
\* with the whole stream of a run
C21_RejectedAndCompleted ==
  \E q \in Requests, a \in Requests :
     /\ pipeline[q].pc = "rejected"
     /\ pipeline[a].pc = "completed"
     /\ pipeline[a].emitted = OrchestratorEvents

\* the stream of request q has the completed event
HasCompleted(q) ==
  \E n \in DOMAIN pipeline[q].emitted : pipeline[q].emitted[n] = JCompleted92

\* the submission record is written, and completed is emitted, only by a
\* run in Persist that has emitted the events of every phase, without an
\* error event and without the abort signal; a run that has failed or whose
\* abort was signalled emits at most an error event and writes nothing
PersistStep ==
  /\ \A q \in Requests :
        (pipeline[q].cancel \/ pipeline[q].pc = "failed") =>
           /\ pipeline'[q].emitted
                 \in {pipeline[q].emitted, Append(pipeline[q].emitted, JError)}
           /\ \/ submission' = submission
              \/ \E a \in Requests \ {q} : pipeline'[a].pc # pipeline[a].pc
  /\ submission' # submission =>
        \E q \in Requests :
           /\ pipeline[q].pc = "active"
           /\ ~pipeline[q].cancel
           /\ pipeline[q].emitted = EventsUpTo(Len(Phases))
           /\ pipeline'[q].pc = "completed"
           /\ pipeline'[q].emitted = OrchestratorEvents
           /\ submission' = Saved(pipeline[q].emitted, JCompleted92)

\* a record that was written belongs to a run that completed, and the
\* stream of a run that failed or was stopped has no completed event
WrittenByCompletedRun ==
  /\ submission # PreRun => \E q \in Requests : pipeline[q].pc = "completed"
  /\ \A q \in Requests :
        pipeline[q].pc \in {"failed", "stopped"} => ~HasCompleted(q)

\* C22: under SpecPipeline, Persist happens only in a run in which every
\* earlier phase succeeded and no abort was signalled: after a phase
\* failure or the abort signal the run emits no completed event and writes
\* nothing, and the submission record keeps its document, score and status
C22_PersistOnlyOnSuccess == [][PersistStep]_vars /\ []WrittenByCompletedRun

\* a run was stopped by the abort signal after it had entered Persist, and
\* another failed in Score; the submission record is as before the runs
C22_StoppedBeforePersist ==
  \E q \in Requests, a \in Requests :
     /\ pipeline[q].pc = "stopped"
     /\ pipeline[q].emitted = EventsUpTo(Len(Phases))
     /\ pipeline[a].pc = "failed"
     /\ pipeline[a].phase = Len(Phases) - 1
     /\ submission = PreRun

\* the percents of the progress events in a stream, in their order
RECURSIVE Percents(_)
Percents(emitted) ==
  IF emitted = <<>> THEN <<>>
  ELSE (IF Head(emitted) \in PhaseTexts
        THEN <<PhasePercent(Head(emitted))>> ELSE <<>>) \o Percents(Tail(emitted))

\* a step takes a run to the next phase or leaves it in its phase, and on
\* entering a phase the run emits the progress update of that phase
PhaseEntered ==
  \A q \in Requests :
     /\ pipeline'[q].phase \in {pipeline[q].phase, pipeline[q].phase + 1}
     /\ pipeline'[q].phase = pipeline[q].phase + 1 =>
           pipeline'[q].emitted =
              Append(pipeline[q].emitted, JPhase(PhaseFloors[pipeline'[q].phase]))

\* a run in phase p has emitted the progress updates of the phases 1 to p,
\* and a run that has completed has been through all eight phases
PhasesSoFar ==
  \A q \in Requests :
     /\ pipeline[q].phase \in 0..Len(Phases)
     /\ \A p \in 1..pipeline[q].phase :
           \E n \in DOMAIN pipeline[q].emitted :
              /\ pipeline[q].emitted[n] = JPhase(PhaseFloors[p])
              /\ p > 1 => \E m \in 1..(n - 1) :
                             pipeline[q].emitted[m] = JPhase(PhaseFloors[p - 1])
     /\ pipeline[q].pc = "completed" =>
           /\ pipeline[q].phase = Len(Phases)
           /\ Percents(pipeline[q].emitted) = <<2, 8, 15, 25, 30, 30, 60, 90, 95, 100>>

\* C23: under SpecPipeline, every run goes through Load, Predicate,
\* Documents, Retrieve, Prompt, Generate, Score, Persist in this order, as
\* far as it gets: no step skips a phase or goes back, and the run emits a
\* progress update on entering each phase
C23_PhasesInOrder == [][PhaseEntered]_vars /\ []PhasesSoFar

\* a run has completed in Persist with the progress updates of all phases
C23_AllPhasesDone ==
  \E q \in Requests :
     /\ pipeline[q].pc = "completed"
     /\ Phases[pipeline[q].phase] = "Persist"
     /\ Len(Percents(pipeline[q].emitted)) = 10
     /\ submission.status = "review_pending"

====
